---- MODULE Spec2Model ----
(***************************************************************************)
(* Model of the todo-fs metadata store (src/db.rs): the tables files,      *)
(* relationships and item_relationships, the sqlite_sequence counter of    *)
(* the AUTOINCREMENT key of files, the content directories below           *)
(* <root>/items, and the operations of Db that change them.                *)
(*                                                                         *)
(* Every operation of Db opens a transaction, runs its statements and      *)
(* commits; each `?` in the source is an early return that drops the       *)
(* transaction, which rolls it back.  The input `fault` of an action names *)
(* the step at which the SQL engine or the host filesystem reports an      *)
(* error ("none": every step works).  Constraint violations (UNIQUE,       *)
(* FOREIGN KEY) are computed from the tables, never drawn as a fault.      *)
(* A fault changes no table; a fault at the commit comes after the call    *)
(* has created or removed the content directory, which stays that way.     *)
(***************************************************************************)
EXTENDS Integers, Sequences, FiniteSets, TLC

\* Bounds of the model.
MaxItemId == 2
MaxRelationships == 2
MaxItemRelationships == 2
MaxConditionSets == 1
MaxOpenId == 2
MaxConditions == 2

\* Inputs the operations are called with.
ItemNames == {"alice", "bob"}
RelationshipNames == {"parents", "children"}
ItemIds == 1..MaxItemId
RelationshipIds == 1..MaxRelationships

VARIABLES
    files,                \* table files: sequence of [id, name], in rowid order
    files_seq,            \* sqlite_sequence.seq of files (AUTOINCREMENT)
    relationships,        \* table relationships: sequence of [id, from_name, to_name]
    item_relationships,   \* table item_relationships: sequence of [from_id, to_id, relationship_id]
    condition_sets,       \* table condition_sets (filters in a version 1 store): sequence of [id, name]
    no_relationship_conditions,
                          \* table of that name: sequence of [condition_id, side, relationship_id]
    has_relationship_with_variable_item_conditions,
                          \* table of that name: sequence of [condition_id, side, relationship_id]
    no_relationship_with_specific_item_conditions,
                          \* table of that name: sequence of [condition_id, item_id, side, relationship_id]
    root_filters,         \* table root_filters: sequence of ids of condition_sets
    user_version,         \* PRAGMA user_version of metadata.db
    opened,               \* a Db on the store exists: Db::new has returned it
    upgrade_fns_run,      \* the migrations the last Db::new ran, in the order it ran them
    latest_open_id,       \* FuseClient.latest_open_id
    open_files,           \* FuseClient.open_files: handle id -> response buffer
    disk,                 \* ids n for which the directory <root>/items/<n> exists
    created,              \* the successful create_item calls, in call order:
                          \* [id: the id returned, live: the ids of files before the call]
    lock,                 \* the Mutex around the FuseClient: None, or Some(thread) that holds it
    pc,                   \* for each thread of the FUSE loop, the step of its callback
    locals                \* for each thread, fh: the handle of its fuse_file_info, id: the
                          \* id its callback holds, seen: what its last readdir returned

\* The tables of the condition sets and root filters.
filter_vars == <<condition_sets, no_relationship_conditions,
                 has_relationship_with_variable_item_conditions,
                 no_relationship_with_specific_item_conditions, root_filters>>

\* The schema version and the opening of the store.
version_vars == <<user_version, opened, upgrade_fns_run>>

\* The socket handles of the FuseClient.
client_vars == <<latest_open_id, open_files>>

\* The threads that run the callbacks.
thread_vars == <<lock, pc, locals>>

vars == <<files, files_seq, relationships, item_relationships, disk, created,
          filter_vars, version_vars, client_vars, thread_vars>>

\* The worker threads of fuse_main_real.
Threads == {1, 2}

\* Option<T>: None is the empty sequence, Some(x) the sequence holding x.
None == <<>>
Some(x) == <<x>>

Max(S) == CHOOSE x \in S : \A y \in S : y <= x

FileIds == {files[i].id : i \in 1..Len(files)}
StoredRelationshipIds == {relationships[i].id : i \in 1..Len(relationships)}

\* Mutant: the statements of a transaction stay written when it is dropped.
Finish_written(committed, before, after) == after

\* rusqlite's Transaction rolls back when dropped: only a commit keeps what
\* the statements of the transaction wrote.
Finish(committed, before, after) == IF committed THEN after ELSE before

(***************************************************************************)
(* Db::new on an empty directory, and FuseClient::new on that Db: the two   *)
(* migrations have created empty tables, no socket handle is open.         *)
(***************************************************************************)
Init ==
    /\ files = <<>>
    /\ files_seq = 0
    /\ relationships = <<>>
    /\ item_relationships = <<>>
    /\ condition_sets = <<>>
    /\ no_relationship_conditions = <<>>
    /\ has_relationship_with_variable_item_conditions = <<>>
    /\ no_relationship_with_specific_item_conditions = <<>>
    /\ root_filters = <<>>
    /\ user_version = 2
    /\ opened = TRUE
    /\ upgrade_fns_run = <<"generate_v1_db", "upgrade_v1_v2">>
    /\ latest_open_id = 0
    /\ open_files = <<>>
    /\ disk = {}
    /\ created = <<>>
    /\ lock = <<>>
    /\ pc = [t \in Threads |-> "idle"]
    /\ locals = [t \in Threads |-> [fh |-> <<>>, id |-> 0, seen |-> {}]]

(***************************************************************************)
(* create_item                                                             *)
(***************************************************************************)
\* The rowid of an INTEGER PRIMARY KEY column without AUTOINCREMENT: one more
\* than the largest rowid now in the table.
NextRowId(ids) == IF ids = {} THEN 1 ELSE Max(ids) + 1

\* Mutant: files.id without AUTOINCREMENT, the rowid of a deleted row is free again.
NextFileId_reused == NextRowId(FileIds)

\* files.id is INTEGER PRIMARY KEY AUTOINCREMENT: one more than the largest
\* rowid the table ever held, which sqlite_sequence records.
NextFileId == Max({files_seq} \cup FileIds) + 1

\* Mutant: the content directory is never created.
create_dir_all_skipped(dirs, id) == dirs

create_dir_all(dirs, id) == dirs \cup {id}

CreateItemFaults ==
    {"none", "StartTransaction", "InsertItem", "CreateContentFolder", "CommitTransaction"}

create_item_result(id, fault) ==
    IF fault = "StartTransaction" THEN "StartTransaction"
    ELSE IF fault = "InsertItem" THEN "InsertItem"
    ELSE IF id \in disk THEN "ItemExists"
    ELSE IF fault = "CreateContentFolder" THEN "CreateContentFolder"
    ELSE IF fault = "CommitTransaction" THEN "CommitTransaction"
    ELSE "Ok"

\* Mutant: the transaction is committed before the directory is looked up.
create_item_committed_before_check(result) == result \in {"ItemExists", "Ok"}

\* The commit is the last step: every return before it drops the transaction.
create_item_committed(result) == result = "Ok"

\* Db::create_item: what the call does to the store.
create_item_db(name, fault) ==
    LET id == NextFileId
        result == create_item_result(id, fault)
        ok == create_item_committed(result)
    IN  /\ id <= MaxItemId
        /\ files' = Finish(ok, files, Append(files, [id |-> id, name |-> name]))
        /\ files_seq' = Finish(ok, files_seq, id)
        /\ disk' = IF result \in {"CommitTransaction", "Ok"}
                   THEN create_dir_all(disk, id) ELSE disk
        /\ created' = IF ok THEN Append(created, [id |-> id, live |-> FileIds]) ELSE created
        /\ UNCHANGED <<relationships, item_relationships, filter_vars, version_vars>>

\* Db::create_item called on the store.
create_item(name, fault) ==
    create_item_db(name, fault) /\ UNCHANGED <<client_vars, thread_vars>>

(***************************************************************************)
(* delete_item                                                             *)
(***************************************************************************)
\* DELETE FROM item_relationships WHERE from_id = ?1 OR to_id = ?1
delete_item_relationships(rows, id) ==
    SelectSeq(rows, LAMBDA r : ~(r.from_id = id \/ r.to_id = id))

\* Mutant: DELETE FROM files, its WHERE clause lost.
delete_files_all(rows, id) == <<>>

\* DELETE FROM files WHERE id = ?1
delete_files(rows, id) == SelectSeq(rows, LAMBDA r : r.id # id)

\* The rows that still reference files(id) once the item's item_relationships
\* rows are deleted: the foreign keys are immediate, so the DELETE on files
\* fails while one exists.
files_referenced(item_rows, id) ==
    \/ \E i \in 1..Len(item_rows) : item_rows[i].from_id = id \/ item_rows[i].to_id = id
    \/ \E i \in 1..Len(no_relationship_with_specific_item_conditions) :
           no_relationship_with_specific_item_conditions[i].item_id = id

remove_dir_all(dirs, id) == dirs \ {id}

DeleteItemFaults ==
    {"none", "StartTransaction", "DeleteItemRelationships", "DeleteItem",
     "RemoveItemPath", "CommitTransaction"}

delete_item_result(id, fault) ==
    IF fault = "StartTransaction" THEN "StartTransaction"
    ELSE IF fault = "DeleteItemRelationships" THEN "DeleteItemRelationships"
    ELSE IF fault = "DeleteItem"
            \/ files_referenced(delete_item_relationships(item_relationships, id), id)
         THEN "DeleteItem"
    ELSE IF fault = "RemoveItemPath" \/ id \notin disk THEN "RemoveItemPath"
    ELSE IF fault = "CommitTransaction" THEN "CommitTransaction"
    ELSE "Ok"

delete_item(id, fault) ==
    LET result == delete_item_result(id, fault)
        ok == result = "Ok"
    IN  /\ item_relationships' =
               Finish(ok, item_relationships, delete_item_relationships(item_relationships, id))
        /\ files' = Finish(ok, files, delete_files(files, id))
        /\ disk' = IF result \in {"CommitTransaction", "Ok"}
                   THEN remove_dir_all(disk, id) ELSE disk
        /\ UNCHANGED <<files_seq, relationships, created,
                       filter_vars, version_vars, client_vars, thread_vars>>

(***************************************************************************)
(* add_relationship                                                        *)
(***************************************************************************)
\* Mutant: each name is looked up in its own column only
\* (WHERE from_name = ?1 OR to_name = ?2).
find_relationship_own_column(from_name, to_name) ==
    LET found == SelectSeq(relationships, LAMBDA r :
                     r.from_name = from_name \/ r.to_name = to_name)
    IN  IF found = <<>> THEN None ELSE Some(found[1].id)

\* SELECT id FROM relationships WHERE from_name = ?1 OR to_name = ?1
\*     OR from_name = ?2 OR to_name = ?2, and the first row of the answer.
find_relationship(from_name, to_name) ==
    LET found == SelectSeq(relationships, LAMBDA r :
                     \/ r.from_name = from_name \/ r.to_name = from_name
                     \/ r.from_name = to_name   \/ r.to_name = to_name)
    IN  IF found = <<>> THEN None ELSE Some(found[1].id)

AddRelationshipFaults ==
    {"none", "FindRelationship", "StartTransaction", "InsertRelationship", "CommitTransaction"}

add_relationship_result(from_name, to_name, fault) ==
    IF fault = "FindRelationship" THEN "FindRelationship"
    ELSE IF find_relationship(from_name, to_name) # None THEN "AlreadyExists"
    ELSE IF fault = "none" THEN "Ok"
    ELSE fault

\* Db::add_relationship: what the call does to the store.
add_relationship_db(from_name, to_name, fault) ==
    LET result == add_relationship_result(from_name, to_name, fault)
        ok == result = "Ok"
        id == NextRowId(StoredRelationshipIds)
    IN  /\ ok => Len(relationships) < MaxRelationships
        /\ relationships' = Finish(ok, relationships,
               Append(relationships, [id |-> id, from_name |-> from_name, to_name |-> to_name]))
        /\ UNCHANGED <<files, files_seq, item_relationships, disk, created,
                       filter_vars, version_vars>>

\* Db::add_relationship called on the store.
add_relationship(from_name, to_name, fault) ==
    add_relationship_db(from_name, to_name, fault) /\ UNCHANGED <<client_vars, thread_vars>>

(***************************************************************************)
(* add_item_relationship                                                   *)
(***************************************************************************)
\* Mutant: the table is created without its UNIQUE constraint.
item_relationships_unique_off(rows, row) == TRUE

\* UNIQUE(from_id, to_id, relationship_id)
item_relationships_unique(rows, row) == \A i \in 1..Len(rows) : rows[i] # row

\* Mutant: PRAGMA foreign_keys is left off, no reference is checked.
item_relationships_foreign_keys_off(row) == TRUE

\* FOREIGN KEY(from_id) REFERENCES files(id), FOREIGN KEY(to_id) REFERENCES
\* files(id), FOREIGN KEY(relationship_id) REFERENCES relationships(id), with
\* PRAGMA foreign_keys = ON.
item_relationships_foreign_keys(row) ==
    /\ row.from_id \in FileIds
    /\ row.to_id \in FileIds
    /\ row.relationship_id \in StoredRelationshipIds

AddItemRelationshipFaults ==
    {"none", "StartTransaction", "InsertRelationship", "CommitTransaction"}

add_item_relationship_result(row, fault) ==
    IF fault = "StartTransaction" THEN "StartTransaction"
    ELSE IF \/ fault = "InsertRelationship"
            \/ ~item_relationships_unique(item_relationships, row)
            \/ ~item_relationships_foreign_keys(row)
         THEN "InsertRelationship"
    ELSE IF fault = "CommitTransaction" THEN "CommitTransaction"
    ELSE "Ok"

\* Db::add_item_relationship: what the call does to the store.
add_item_relationship_db(from_id, to_id, relationship_id, fault) ==
    LET row == [from_id |-> from_id, to_id |-> to_id, relationship_id |-> relationship_id]
        result == add_item_relationship_result(row, fault)
        ok == result = "Ok"
    IN  /\ ok => Len(item_relationships) < MaxItemRelationships
        /\ item_relationships' = Finish(ok, item_relationships, Append(item_relationships, row))
        /\ UNCHANGED <<files, files_seq, relationships, disk, created,
                       filter_vars, version_vars>>

\* Db::add_item_relationship called on the store.
add_item_relationship(from_id, to_id, relationship_id, fault) ==
    /\ add_item_relationship_db(from_id, to_id, relationship_id, fault)
    /\ UNCHANGED <<client_vars, thread_vars>>

(***************************************************************************)
(* get_items, get_item_by_id                                               *)
(***************************************************************************)
\* Mutant: the second test of the loop is an `else if`, a row that relates an
\* item to itself yields its Source entry only.
RECURSIVE item_relationships_of_else_if(_, _)
item_relationships_of_else_if(item_id, rows) ==
    IF rows = <<>> THEN <<>>
    ELSE LET relationship == Head(rows)
             entry == IF relationship.from_id = item_id
                      THEN <<[id |-> relationship.relationship_id,
                              sibling |-> relationship.to_id, side |-> "Source"]>>
                      ELSE IF relationship.to_id = item_id
                      THEN <<[id |-> relationship.relationship_id,
                              sibling |-> relationship.from_id, side |-> "Dest"]>>
                      ELSE <<>>
         IN  entry \o item_relationships_of_else_if(item_id, Tail(rows))

\* The inner loop of get_items over the item_relationships rows, in row order.
RECURSIVE item_relationships_of(_, _)
item_relationships_of(item_id, rows) ==
    IF rows = <<>> THEN <<>>
    ELSE LET relationship == Head(rows)
             source == IF relationship.from_id = item_id
                       THEN <<[id |-> relationship.relationship_id,
                               sibling |-> relationship.to_id, side |-> "Source"]>>
                       ELSE <<>>
             dest == IF relationship.to_id = item_id
                     THEN <<[id |-> relationship.relationship_id,
                             sibling |-> relationship.from_id, side |-> "Dest"]>>
                     ELSE <<>>
         IN  source \o dest \o item_relationships_of(item_id, Tail(rows))

get_items ==
    [i \in 1..Len(files) |->
        [path |-> files[i].id,
         id |-> files[i].id,
         relationships |-> item_relationships_of(files[i].id, item_relationships),
         name |-> files[i].name]]

get_item_by_id(id) ==
    LET found == SelectSeq(get_items, LAMBDA item : item.id = id)
    IN  IF found = <<>> THEN None ELSE Some(found[1])

(***************************************************************************)
(* get_sibling_id                                                          *)
(***************************************************************************)
\* RelationshipSide
Sides == {"Source", "Dest"}

\* What a call hands back when the SQL engine reports no error: Ok(value), or
\* no value at all because the call panicked.
Ok(v) == [panicked |-> FALSE, value |-> v]
Panic == [panicked |-> TRUE, value |-> <<>>]

\* Mutant: the join strings of the two sides are exchanged.
get_sibling_join_swapped(side, row) ==
    IF side = "Dest" THEN [us |-> row.from_id, them |-> row.to_id]
    ELSE [us |-> row.to_id, them |-> row.from_id]

\* join_str: Dest joins us_files on to_id and them_files on from_id, Source
\* joins us_files on from_id and them_files on to_id.
get_sibling_join(side, row) ==
    IF side = "Dest" THEN [us |-> row.to_id, them |-> row.from_id]
    ELSE [us |-> row.from_id, them |-> row.to_id]

\* SELECT them_files.id FROM files us_files <join_str> LEFT JOIN relationships
\* ... WHERE us_files.id = ?1 AND them_files.name = ?2 AND relationships.id = ?3;
\* the first row of the answer, and a panic when there is a second one.
get_sibling_id(id, side, relationship_id, sibling_name) ==
    LET found == SelectSeq(item_relationships, LAMBDA row :
                     /\ get_sibling_join(side, row).us = id
                     /\ id \in FileIds
                     /\ \E i \in 1..Len(files) :
                            /\ files[i].id = get_sibling_join(side, row).them
                            /\ files[i].name = sibling_name
                     /\ row.relationship_id = relationship_id
                     /\ relationship_id \in StoredRelationshipIds)
    IN  IF Len(found) >= 2 THEN Panic
        ELSE IF found = <<>> THEN Ok(None)
        ELSE Ok(Some(get_sibling_join(side, found[1]).them))

(***************************************************************************)
(* run_filter                                                              *)
(***************************************************************************)
\* Condition
NoRelationship(side, relationship_id) ==
    [type |-> "NoRelationship", side |-> side, relationship_id |-> relationship_id]

HasRelationshipWithVariableItem(side, relationship_id) ==
    [type |-> "HasRelationshipWithVariableItem", side |-> side,
     relationship_id |-> relationship_id]

NoRelationshipWithSpecificItem(item_id, side, relationship_id) ==
    [type |-> "NoRelationshipWithSpecificItem", item_id |-> item_id, side |-> side,
     relationship_id |-> relationship_id]

\* Mutant: the columns of the two sides are exchanged.
side_to_condition_str_swapped(side, row, file_id) ==
    IF side = "Dest" THEN row.from_id = file_id ELSE row.to_id = file_id

\* Dest: item_relationships.to_id = files.id; Source: item_relationships.from_id
\* = files.id
side_to_condition_str(side, row, file_id) ==
    IF side = "Dest" THEN row.to_id = file_id ELSE row.from_id = file_id

\* Mutant: the other side of a row is taken to be the side itself.
side_to_other_side_id_str_own(side, row) ==
    IF side = "Dest" THEN row.to_id ELSE row.from_id

\* Dest: item_relationships.from_id; Source: item_relationships.to_id
side_to_other_side_id_str(side, row) ==
    IF side = "Dest" THEN row.from_id ELSE row.to_id

\* The WHERE term ConditionSqlGenerator writes for one condition, evaluated for
\* the row of files with id file_id.  item_context is unwrapped by the second
\* variant only.
ConditionSqlGenerator(condition, item_context, file_id) ==
    IF condition.type = "NoRelationship"
    THEN file_id \notin
           {files[k].id : k \in {k \in 1..Len(files) :
               \E i \in 1..Len(item_relationships) :
                   /\ side_to_condition_str(condition.side, item_relationships[i], files[k].id)
                   /\ item_relationships[i].relationship_id = condition.relationship_id}}
    ELSE IF condition.type = "HasRelationshipWithVariableItem"
    THEN file_id \in
           {files[k].id : k \in {k \in 1..Len(files) :
               \E i \in 1..Len(item_relationships) :
                   /\ side_to_condition_str(condition.side, item_relationships[i], files[k].id)
                   /\ item_relationships[i].relationship_id = condition.relationship_id
                   /\ side_to_other_side_id_str(condition.side, item_relationships[i])
                          = item_context[1]}}
    ELSE file_id \notin
           {files[k].id : k \in {k \in 1..Len(files) :
               \E i \in 1..Len(item_relationships) :
                   /\ side_to_condition_str(condition.side, item_relationships[i], files[k].id)
                   /\ item_relationships[i].relationship_id = condition.relationship_id
                   /\ side_to_other_side_id_str(condition.side, item_relationships[i])
                          = condition.item_id}}

\* Mutant: the conditions are joined by OR.
run_filter_where_or(conditions, item_id, file_id) ==
    \E k \in 1..Len(conditions) : ConditionSqlGenerator(conditions[k], item_id, file_id)

\* Mutant: the query always carries a WHERE, which selects nothing when there
\* is no condition to put behind it.
run_filter_where_dangling(conditions, item_id, file_id) ==
    /\ conditions # <<>>
    /\ \A k \in 1..Len(conditions) : ConditionSqlGenerator(conditions[k], item_id, file_id)

\* "WHERE (c1) AND (c2) ...": no WHERE at all for an empty list.
run_filter_where(conditions, item_id, file_id) ==
    \A k \in 1..Len(conditions) : ConditionSqlGenerator(conditions[k], item_id, file_id)

\* SELECT files.id FROM files [WHERE ...], the rows in rowid order.  Writing the
\* query unwraps item_id for a HasRelationshipWithVariableItem condition.
run_filter(conditions, item_id) ==
    IF /\ item_id = None
       /\ \E k \in 1..Len(conditions) :
              conditions[k].type = "HasRelationshipWithVariableItem"
    THEN Panic
    ELSE LET rows == SelectSeq(files, LAMBDA f : run_filter_where(conditions, item_id, f.id))
         IN  Ok([i \in 1..Len(rows) |-> rows[i].id])

\* ItemFilter::matches: None for Err; the call panics when run_filter does.
matches(conditions, item_id) ==
    LET result == run_filter(conditions, Some(item_id))
    IN  IF result.panicked THEN Panic
        ELSE Ok(\E k \in 1..Len(result.value) : result.value[k] = item_id)

(***************************************************************************)
(* add_root_filter, get_condition_sets, get_root_filters                   *)
(***************************************************************************)
\* RelationshipSide::as_i64
as_i64(side) == IF side = "Source" THEN 0 ELSE 1

\* RelationshipSide::from_i64
from_i64(num) ==
    IF num = 0 THEN "Source" ELSE IF num = 1 THEN "Dest" ELSE "ParseRelationshipSideError"

StoredConditionSetIds == {condition_sets[i].id : i \in 1..Len(condition_sets)}

\* The rows add_condition_set inserts into the table of one Condition variant,
\* in the order of the conditions.
condition_rows(condition_set_id, conditions, type) ==
    LET of_type == SelectSeq(conditions, LAMBDA c : c.type = type)
    IN  [i \in 1..Len(of_type) |->
            IF type = "NoRelationshipWithSpecificItem"
            THEN [condition_id |-> condition_set_id, item_id |-> of_type[i].item_id,
                  side |-> as_i64(of_type[i].side),
                  relationship_id |-> of_type[i].relationship_id]
            ELSE [condition_id |-> condition_set_id, side |-> as_i64(of_type[i].side),
                  relationship_id |-> of_type[i].relationship_id]]

\* The constraints on the rows of the conditions of a new condition set:
\* FOREIGN KEY(relationship_id) REFERENCES relationships(id) in the three
\* tables, FOREIGN KEY(item_id) REFERENCES files(id), and UNIQUE(filter_id,
\* side, relationship_id) in no_relationship_conditions.
condition_rows_accepted(conditions) ==
    /\ \A k \in 1..Len(conditions) : conditions[k].relationship_id \in StoredRelationshipIds
    /\ \A k \in 1..Len(conditions) :
           conditions[k].type = "NoRelationshipWithSpecificItem"
               => conditions[k].item_id \in FileIds
    /\ \A j, k \in 1..Len(conditions) :
           (j # k /\ conditions[j].type = "NoRelationship")
               => conditions[j] # conditions[k]

AddFilterFaults ==
    {"none", "StartTransaction", "InsertFilter", "InsertRule", "InsertRootFilter",
     "CommitTransaction"}

add_root_filter_result(conditions, fault) ==
    IF fault = "StartTransaction" THEN "StartTransaction"
    ELSE IF fault = "InsertFilter" THEN "InsertFilter"
    ELSE IF \/ fault = "InsertRule" /\ conditions # <<>>
            \/ ~condition_rows_accepted(conditions)
         THEN "InsertRule"
    ELSE IF fault = "InsertRootFilter" THEN "InsertRootFilter"
    ELSE IF fault = "CommitTransaction" THEN "CommitTransaction"
    ELSE "Ok"

\* Db::add_root_filter: what the call does to the store.
add_root_filter_db(name, conditions, fault) ==
    LET result == add_root_filter_result(conditions, fault)
        ok == result = "Ok"
        id == NextRowId(StoredConditionSetIds)
    IN  /\ ok => Len(condition_sets) < MaxConditionSets
        /\ condition_sets' =
               Finish(ok, condition_sets, Append(condition_sets, [id |-> id, name |-> name]))
        /\ no_relationship_conditions' =
               Finish(ok, no_relationship_conditions,
                      no_relationship_conditions
                          \o condition_rows(id, conditions, "NoRelationship"))
        /\ has_relationship_with_variable_item_conditions' =
               Finish(ok, has_relationship_with_variable_item_conditions,
                      has_relationship_with_variable_item_conditions
                          \o condition_rows(id, conditions, "HasRelationshipWithVariableItem"))
        /\ no_relationship_with_specific_item_conditions' =
               Finish(ok, no_relationship_with_specific_item_conditions,
                      no_relationship_with_specific_item_conditions
                          \o condition_rows(id, conditions, "NoRelationshipWithSpecificItem"))
        /\ root_filters' = Finish(ok, root_filters, Append(root_filters, id))
        /\ UNCHANGED <<files, files_seq, relationships, item_relationships, disk, created,
                       version_vars>>

\* Db::add_root_filter called on the store.
add_root_filter(name, conditions, fault) ==
    add_root_filter_db(name, conditions, fault) /\ UNCHANGED <<client_vars, thread_vars>>

load_no_relationship_conditions(condition_set_id) ==
    LET rows == SelectSeq(no_relationship_conditions,
                          LAMBDA r : r.condition_id = condition_set_id)
    IN  [i \in 1..Len(rows) |-> NoRelationship(from_i64(rows[i].side), rows[i].relationship_id)]

load_has_relationship_with_variable_item_conditions(condition_set_id) ==
    LET rows == SelectSeq(has_relationship_with_variable_item_conditions,
                          LAMBDA r : r.condition_id = condition_set_id)
    IN  [i \in 1..Len(rows) |->
            HasRelationshipWithVariableItem(from_i64(rows[i].side), rows[i].relationship_id)]

load_no_relationship_with_specific_item_conditions(condition_set_id) ==
    LET rows == SelectSeq(no_relationship_with_specific_item_conditions,
                          LAMBDA r : r.condition_id = condition_set_id)
    IN  [i \in 1..Len(rows) |->
            NoRelationshipWithSpecificItem(rows[i].item_id, from_i64(rows[i].side),
                                           rows[i].relationship_id)]

\* Every condition set, its rules loaded table by table.
get_condition_sets ==
    [i \in 1..Len(condition_sets) |->
        [id |-> condition_sets[i].id,
         name |-> condition_sets[i].name,
         rules |-> load_no_relationship_conditions(condition_sets[i].id)
                   \o load_has_relationship_with_variable_item_conditions(condition_sets[i].id)
                   \o load_no_relationship_with_specific_item_conditions(condition_sets[i].id)]]

get_root_filters ==
    SelectSeq(get_condition_sets,
              LAMBDA filter : \E k \in 1..Len(root_filters) : root_filters[k] = filter.id)

\* Db::get_filters, which FuseClient calls for the entries of the root and for
\* a filter directory: the root filters.
get_filters == get_root_filters

\* Db::add_filter(name, filters), which FuseClient::write calls: the filter
\* is stored as a root filter of that name with these rules.
add_filter(name, filters) == add_root_filter_db(name, filters, "none")

\* Db::run_filter as FuseClient calls it for a filter directory, with the rules
\* alone: the filter is evaluated without a context item.
run_filter_rules(rules) == run_filter(rules, None)

(***************************************************************************)
(* FuseClient: path purposes and directory listings                        *)
(*                                                                         *)
(* A path is the sequence of its components below the root: <<>> is "/".   *)
(* A host path is a sequence of components too, "<root>" standing for the  *)
(* store directory and "<bin>" for the directory of the executable.        *)
(***************************************************************************)
\* PathPurpose
Purpose(kind, item_id, relationship_id, side, filter_id, path) ==
    [kind |-> kind, item_id |-> item_id, relationship_id |-> relationship_id,
     side |-> side, filter_id |-> filter_id, path |-> path]

Root == Purpose("Root", 0, 0, "", 0, <<>>)
ToolBins == Purpose("ToolBins", 0, 0, "", 0, <<>>)
Items == Purpose("Items", 0, 0, "", 0, <<>>)
Relationships == Purpose("Relationships", 0, 0, "", 0, <<>>)
Socket == Purpose("Socket", 0, 0, "", 0, <<>>)
Item(id) == Purpose("Item", id, 0, "", 0, <<>>)
ItemId(id) == Purpose("ItemId", id, 0, "", 0, <<>>)
ItemName(id) == Purpose("ItemName", id, 0, "", 0, <<>>)
Relationship(id) == Purpose("Relationship", 0, id, "", 0, <<>>)
RelationshipId(id) == Purpose("RelationshipId", 0, id, "", 0, <<>>)
RelationshipFromName(id) == Purpose("RelationshipFromName", 0, id, "", 0, <<>>)
RelationshipToName(id) == Purpose("RelationshipToName", 0, id, "", 0, <<>>)
ItemRelationships(item_id, relationship_id, side) ==
    Purpose("ItemRelationships", item_id, relationship_id, side, 0, <<>>)
ItemLink(id) == Purpose("ItemLink", id, 0, "", 0, <<>>)
PassthroughPath(path) == Purpose("PassthroughPath", 0, 0, "", 0, path)
Filter(id) == Purpose("Filter", 0, 0, "", id, <<>>)
Unknown == Purpose("Unknown", 0, 0, "", 0, <<>>)

ITEMS_FOLDER == <<"items">>
RELATIONSHIPS_FOLDER == <<"relationships">>
API_HANDLE_PATH == <<".api_handle">>

\* SELECT id, from_name, to_name FROM relationships WHERE id = ?1
get_relationship(id) ==
    LET found == SelectSeq(relationships, LAMBDA r : r.id = id)
    IN  IF found = <<>> THEN None ELSE Some(found[1])

get_relationships == relationships

\* self.item_path.join(id).canonicalize(), which fails when the directory is
\* not there.
content_folder_for_id(id) ==
    IF id \in disk THEN Some(<<"<root>", "items", ToString(id)>>) ELSE None

\* Mutant: the label of each side is the name of that side.
categorize_name_own_side(side, relationship) ==
    IF side = "Dest" THEN relationship.to_name ELSE relationship.from_name

\* Dest => relationship.from_name, Source => relationship.to_name
categorize_name(side, relationship) ==
    IF side = "Dest" THEN relationship.from_name ELSE relationship.to_name

\* The HashSet of (relationship id, side, label) of an item's relationships;
\* the entries whose relationship is not stored make the call fail.
categorize_relationships(item_relationships_of_item) ==
    {[id |-> item_relationships_of_item[k].id,
      side |-> item_relationships_of_item[k].side,
      name |-> categorize_name(item_relationships_of_item[k].side,
                               get_relationship(item_relationships_of_item[k].id)[1])] :
        k \in 1..Len(item_relationships_of_item)}

\* What list_dir_contents returns: an error, or the entries (purpose, name).
\* `unordered` holds the entries that come first, in the order in which the
\* HashSet of categorize_relationships happens to yield them; `entries` holds
\* the entries whose order the code fixes.
Listing(unordered, entries) == [err |-> "", unordered |-> unordered, entries |-> entries]
ListingErr(err) == [err |-> err, unordered |-> {}, entries |-> <<>>]
Entry(purpose, name) == [purpose |-> purpose, name |-> name]

ToolBinNames == <<"create-item", "create-item-relationship", "create-relationship",
                  "create-filter">>

\* relationship.id == relationship_id && relationship.side == relationship_side
item_relationships_entry(relationship, relationship_id, relationship_side) ==
    relationship.id = relationship_id /\ relationship.side = relationship_side

list_dir_contents(purpose) ==
    CASE purpose.kind = "Root" ->
            Listing({}, <<Entry(Items, ITEMS_FOLDER[1]),
                          Entry(Relationships, RELATIONSHIPS_FOLDER[1]),
                          Entry(ToolBins, "bin"),
                          Entry(Socket, API_HANDLE_PATH[1])>>
                        \o LET filters == get_filters
                           IN  [i \in 1..Len(filters) |->
                                   Entry(Filter(filters[i].id), filters[i].name)])
      [] purpose.kind = "Items" ->
            LET items == get_items
            IN  Listing({}, [i \in 1..Len(items) |->
                                Entry(Item(items[i].id), ToString(items[i].id))])
      [] purpose.kind = "Relationships" ->
            LET stored == get_relationships
            IN  Listing({}, [i \in 1..Len(stored) |->
                                Entry(Relationship(stored[i].id), ToString(stored[i].id))])
      [] purpose.kind = "Relationship" ->
            Listing({}, <<Entry(RelationshipId(purpose.relationship_id), "id"),
                          Entry(RelationshipFromName(purpose.relationship_id), "from_name"),
                          Entry(RelationshipToName(purpose.relationship_id), "to_name")>>)
      [] purpose.kind = "Item" ->
            LET id == purpose.item_id
                item == get_item_by_id(id)
            IN  IF item = None THEN ListingErr("ItemIdNotInDatabase")
                ELSE IF \E k \in 1..Len(item[1].relationships) :
                            get_relationship(item[1].relationships[k].id) = None
                THEN ListingErr("CategorizeRelationships")
                ELSE IF content_folder_for_id(id) = None THEN ListingErr("GetContentFolder")
                ELSE Listing(
                       {Entry(ItemRelationships(id, r.id, r.side), r.name) :
                            r \in categorize_relationships(item[1].relationships)},
                       <<Entry(PassthroughPath(content_folder_for_id(id)[1]), "content"),
                         Entry(ItemId(id), "id"),
                         Entry(ItemName(id), "name")>>)
      [] purpose.kind = "Filter" ->
            LET found == SelectSeq(get_filters, LAMBDA f : f.id = purpose.filter_id)
            IN  IF found = <<>> THEN ListingErr("FindFilter")
                ELSE LET item_ids == run_filter_rules(found[1].rules)
                     IN  IF item_ids.panicked THEN ListingErr("panic")
                         ELSE LET items == [k \in 1..Len(item_ids.value) |->
                                               get_item_by_id(item_ids.value[k])]
                              IN  IF \E k \in 1..Len(items) : items[k] = None
                                  THEN ListingErr("ItemIdNotInDatabase")
                                  ELSE Listing({}, [k \in 1..Len(items) |->
                                           Entry(ItemLink(item_ids.value[k]),
                                                 items[k][1].name)])
      [] purpose.kind = "ToolBins" ->
            Listing({}, [k \in 1..Len(ToolBinNames) |->
                            Entry(PassthroughPath(<<"<bin>", ToolBinNames[k]>>),
                                  ToolBinNames[k])])
      [] purpose.kind = "ItemRelationships" ->
            LET item == get_item_by_id(purpose.item_id)
            IN  IF item = None THEN ListingErr("ItemIdNotInDatabase")
                ELSE LET of_dir == SelectSeq(item[1].relationships, LAMBDA r :
                                       item_relationships_entry(r, purpose.relationship_id,
                                                                purpose.side))
                         siblings == [k \in 1..Len(of_dir) |->
                                         get_item_by_id(of_dir[k].sibling)]
                         present == SelectSeq(siblings, LAMBDA sibling : sibling # None)
                     IN  Listing({}, [k \in 1..Len(present) |->
                             Entry(ItemLink(present[k][1].id), present[k][1].name)])
      [] purpose.kind = "PassthroughPath" ->
            \* fs::read_dir: the content directory of an item, in which nothing
            \* has been stored
            IF \E id \in disk : purpose.path = <<"<root>", "items", ToString(id)>>
            THEN Listing({}, <<>>)
            ELSE ListingErr("ReadDbDir")
      [] OTHER -> ListingErr("NotADirectory")

\* Every entry of a listing.
ListingEntries(listing) ==
    listing.unordered \cup {listing.entries[k] : k \in 1..Len(listing.entries)}

\* What parse_path returns: an error or a purpose.
Parsed(purpose) == [err |-> "", purpose |-> purpose]
ParsedErr(err) == [err |-> err, purpose |-> Unknown]

\* .find(|item| item.1 == name): the first entry of that name.  Among the
\* entries the HashSet yields any one of that name may be the first.
find(listing, name) ==
    IF \E e \in listing.unordered : e.name = name
    THEN {Parsed(e.purpose) : e \in {e \in listing.unordered : e.name = name}}
    ELSE LET found == SelectSeq(listing.entries, LAMBDA e : e.name = name)
         IN  IF found = <<>> THEN {Parsed(Unknown)} ELSE {Parsed(found[1].purpose)}

\* parse_path: the results the call can return for a path.
RECURSIVE parse_path(_)
parse_path(path) ==
    IF path = <<>> THEN {Parsed(Root)}
    ELSE LET name == path[Len(path)]
             parent == SubSeq(path, 1, Len(path) - 1)
         IN  IF name = ".." THEN {Parsed(Unknown)}
             ELSE UNION {
                    IF parsed_parent.err # "" THEN {parsed_parent}
                    ELSE IF parsed_parent.purpose.kind = "PassthroughPath"
                    THEN {Parsed(PassthroughPath(Append(parsed_parent.purpose.path, name)))}
                    ELSE LET listing == list_dir_contents(parsed_parent.purpose)
                         IN  IF listing.err = "panic" THEN {ParsedErr("panic")}
                             ELSE IF listing.err # "" THEN {ParsedErr("ReadDir")}
                             ELSE find(listing, name) :
                        parsed_parent \in parse_path(parent)}

(***************************************************************************)
(* FuseClient: file types, getattr, readlink                               *)
(***************************************************************************)
\* String::into_bytes for the names the model uses.
into_bytes(s) ==
    CASE s = "alice" -> <<"a", "l", "i", "c", "e">>
      [] s = "bob" -> <<"b", "o", "b">>
      [] s = "parents" -> <<"p", "a", "r", "e", "n", "t", "s">>
      [] s = "children" -> <<"c", "h", "i", "l", "d", "r", "e", "n">>
      [] s = "orphans" -> <<"o", "r", "p", "h", "a", "n", "s">>
      [] s = "items" -> <<"i", "t", "e", "m", "s">>
      [] s = "content" -> <<"c", "o", "n", "t", "e", "n", "t">>
      [] s = "name" -> <<"n", "a", "m", "e">>

\* i64::to_string followed by into_bytes, for the ids of the model (>= 0).
RECURSIVE id_to_bytes(_)
id_to_bytes(id) ==
    IF id < 10 THEN <<ToString(id)>>
    ELSE Append(id_to_bytes(id \div 10), ToString(id % 10))

\* Mutant: the text is returned as it is.
with_newline_as_vec_plain(bytes) == bytes

\* s += "\n"; s.into_bytes()
with_newline_as_vec(bytes) == Append(bytes, "\n")

get_item_id_file_contents(id) == with_newline_as_vec(id_to_bytes(id))

get_relationship_id_file_contents(id) == with_newline_as_vec(id_to_bytes(id))

get_item_name_file_contents(id) ==
    IF get_item_by_id(id) = None THEN <<>>
    ELSE with_newline_as_vec(into_bytes(get_item_by_id(id)[1].name))

get_relationship_from_name_file_contents(id) ==
    IF get_relationship(id) = None THEN <<>>
    ELSE with_newline_as_vec(into_bytes(get_relationship(id)[1].from_name))

get_relationship_to_name_file_contents(id) ==
    IF get_relationship(id) = None THEN <<>>
    ELSE with_newline_as_vec(into_bytes(get_relationship(id)[1].to_name))

\* Filetype
Dir == [type |-> "Dir", size |-> 0]
Link == [type |-> "Link", size |-> 0]
File(size) == [type |-> "File", size |-> size]

\* The host paths that exist: the content directories and the tool binaries.
host_exists(p) ==
    \/ \E id \in disk : p = <<"<root>", "items", ToString(id)>>
    \/ \E k \in 1..Len(ToolBinNames) : p = <<"<bin>", ToolBinNames[k]>>

host_is_dir(p) == \E id \in disk : p = <<"<root>", "items", ToString(id)>>

\* path_purpose_to_filetype: None stands for Err.
path_purpose_to_filetype(purpose) ==
    CASE purpose.kind \in {"Root", "ToolBins", "Items", "Relationships", "Item",
                           "Relationship", "Filter", "ItemRelationships", "Unknown"} ->
            Some(Dir)
      [] purpose.kind = "ItemLink" -> Some(Link)
      [] purpose.kind = "Socket" -> Some(File(0))
      [] purpose.kind = "ItemId" ->
            Some(File(Len(get_item_id_file_contents(purpose.item_id))))
      [] purpose.kind = "ItemName" ->
            Some(File(Len(get_item_name_file_contents(purpose.item_id))))
      [] purpose.kind = "RelationshipId" ->
            Some(File(Len(get_relationship_id_file_contents(purpose.relationship_id))))
      [] purpose.kind = "RelationshipFromName" ->
            Some(File(Len(get_relationship_from_name_file_contents(purpose.relationship_id))))
      [] purpose.kind = "RelationshipToName" ->
            Some(File(Len(get_relationship_to_name_file_contents(purpose.relationship_id))))
      [] purpose.kind = "PassthroughPath" ->
            IF ~host_exists(purpose.path) THEN None
            ELSE IF host_is_dir(purpose.path) THEN Some(Dir)
            ELSE Some(File(0))

\* get_passthrough_path: the results the call can return, None for Err,
\* Some(None) for Ok(None).
get_passthrough_path(path) ==
    {IF parsed.err # "" THEN None
     ELSE IF parsed.purpose.kind = "PassthroughPath" THEN Some(Some(parsed.purpose.path))
     ELSE Some(None) : parsed \in parse_path(path)}

\* get_filetype: the results the call can return, None for Err.
get_filetype(path) ==
    {IF parsed.err # "" THEN None ELSE path_purpose_to_filetype(parsed.purpose) :
        parsed \in parse_path(path)}

ENOENT == 2
S_IFDIR == "S_IFDIR"
S_IFLNK == "S_IFLNK"
S_IFREG == "S_IFREG"

Stat(ret, st_mode, st_size) == [ret |-> ret, st_mode |-> st_mode, st_size |-> st_size]

\* fuse_client_getattr: the results the callback can return.  A st_mode of ""
\* is a statbuf the callback has not filled.
fuse_client_getattr(path) ==
    UNION {
        IF passthrough_path = None THEN {Stat(-1, "", 0)}
        ELSE IF passthrough_path[1] # None
        THEN {IF ~host_exists(passthrough_path[1][1]) THEN Stat(-ENOENT, "", 0)
              ELSE IF host_is_dir(passthrough_path[1][1]) THEN Stat(0, S_IFDIR, 0)
              ELSE Stat(0, S_IFREG, 0)}
        ELSE {IF filetype = None THEN Stat(-1, "", 0)
              ELSE IF filetype[1].type = "Dir" THEN Stat(0, S_IFDIR, 0)
              ELSE IF filetype[1].type = "Link" THEN Stat(0, S_IFLNK, 0)
              ELSE Stat(0, S_IFREG, filetype[1].size) :
                 filetype \in get_filetype(path)} :
            passthrough_path \in get_passthrough_path(path)}

\* Mutant: one ".." per component of the path below the root.
readlink_num_components_per_component(path) == Len(path)

\* path.iter().count() - 2: the iterator also counts the root.
readlink_num_components(path) == (Len(path) + 1) - 2

\* readlink: the results the call can return, None for Err.
readlink(path) ==
    {IF parsed.err # "" \/ parsed.purpose.kind # "ItemLink" THEN None
     ELSE Some([k \in 1..readlink_num_components(path) |-> ".."]
               \o <<ITEMS_FOLDER[1], ToString(parsed.purpose.item_id)>>) :
        parsed \in parse_path(path)}

\* DirEntry::Dir(name), DirEntry::Link(name), DirEntry::File(name)
DirEntry(type, name) == [type |-> type, name |-> name]

\* readdir: the results the call can return, an error or the entries of the
\* directory (type, name) in the order of list_dir_contents.
readdir(path) ==
    {IF parsed.err # "" THEN ListingErr("ParsePath")
     ELSE LET listing == list_dir_contents(parsed.purpose)
          IN  IF listing.err # "" THEN listing
              ELSE IF \E e \in ListingEntries(listing) :
                          path_purpose_to_filetype(e.purpose) = None
              THEN ListingErr("GetFiletype")
              ELSE Listing(
                     {DirEntry(path_purpose_to_filetype(e.purpose)[1].type, e.name) :
                          e \in listing.unordered},
                     [k \in 1..Len(listing.entries) |->
                         DirEntry(path_purpose_to_filetype(listing.entries[k].purpose)[1].type,
                                  listing.entries[k].name)]) :
        parsed \in parse_path(path)}

(***************************************************************************)
(* FuseClient: the socket.  open, write, read and release as the FUSE      *)
(* callbacks of fuse/mod.rs run them, each under the lock of get_client.   *)
(*                                                                         *)
(* A buffer of bytes is a sequence of chunks, the JSON text of one message *)
(* being one chunk.                                                        *)
(***************************************************************************)
\* ClientRequest, as the JSON text a client writes.
Request(type, name, from_name, to_name, from_id, to_id, relationship_id, filters) ==
    [type |-> type, name |-> name, from_name |-> from_name, to_name |-> to_name,
     from_id |-> from_id, to_id |-> to_id, relationship_id |-> relationship_id,
     filters |-> filters]
CreateItemRequest(name) == Request("create_item", name, "", "", 0, 0, 0, <<>>)
CreateRelationshipRequest(from_name, to_name) ==
    Request("create_relationship", "", from_name, to_name, 0, 0, 0, <<>>)
CreateItemRelationshipRequest(relationship_id, from_id, to_id) ==
    Request("create_item_relationship", "", "", "", from_id, to_id, relationship_id, <<>>)
CreateFilterRequest(name, filters) == Request("create_filter", name, "", "", 0, 0, 0, filters)
MalformedRequest == Request("not json", "", "", "", 0, 0, 0, <<>>)

\* serde_json::from_slice::<ClientRequest>: None for Err(ParseJson).  The
\* rules of a create_filter request are no_relationship rules.
from_slice_request(buf) ==
    IF /\ buf.type \in {"create_item", "create_relationship", "create_item_relationship",
                         "create_filter"}
       /\ \A k \in 1..Len(buf.filters) : buf.filters[k].type = "NoRelationship"
    THEN Some(buf) ELSE None

\* ClientResponse
CreateItemResponse(path) == [type |-> "create_item", data |-> [path |-> path]]
CreateRelationshipResponse(path) == [type |-> "create_relationship", data |-> [path |-> path]]

\* Path::new(folder).join(name)
join(folder, name) == Append(folder, name)

\* Mutant: the response names the folder of the items for a relationship too.
create_relationship_response_path_items(id) == join(ITEMS_FOLDER, ToString(id))

\* Path::new(RELATIONSHIPS_FOLDER).join(item_id.0.to_string())
create_relationship_response_path(id) == join(RELATIONSHIPS_FOLDER, ToString(id))

\* Path::new(ITEMS_FOLDER).join(item_id.0.to_string())
create_item_response_path(id) == join(ITEMS_FOLDER, ToString(id))

\* Mutant: a response takes the place of what the buffer holds.
to_writer_truncating(response_file, response) == <<response>>

\* serde_json::to_writer(response_file, &response): the text of the response
\* is appended to the buffer.
to_writer(response_file, response) == Append(response_file, response)

\* serde_json::from_slice::<ClientResponse> on the bytes a read returned: one
\* JSON value and nothing after it, None for Err.
from_slice_response(bytes) == IF Len(bytes) = 1 THEN Some(bytes[1]) ELSE None

\* HashMap::insert and HashMap::remove
insert(map, key, value) ==
    [k \in DOMAIN map \cup {key} |-> IF k = key THEN value ELSE map[k]]
remove(map, key) == [k \in DOMAIN map \ {key} |-> map[k]]

\* Mutant: the id of a handle is not counted on.
open_same_id(purpose) ==
    IF purpose.kind = "Socket"
    THEN /\ latest_open_id < MaxOpenId
         /\ open_files' = insert(open_files, latest_open_id, <<>>)
         /\ UNCHANGED latest_open_id
    ELSE UNCHANGED client_vars

\* FuseClient::open
open(purpose) ==
    IF purpose.kind = "Socket"
    THEN /\ latest_open_id < MaxOpenId
         /\ open_files' = insert(open_files, latest_open_id, <<>>)
         /\ latest_open_id' = latest_open_id + 1
    ELSE UNCHANGED client_vars

\* Mutant: every path that is not the socket is opened as a Noop.
open_result_noop(purpose) == IF purpose.kind = "Socket" THEN "Socket" ELSE "Noop"

\* OpenRet, what FuseClient::open returns for a purpose.
open_result(purpose) ==
    IF purpose.kind = "Socket" THEN "Socket"
    ELSE IF purpose.kind \in {"ItemId", "ItemName", "RelationshipId", "RelationshipToName",
                              "RelationshipFromName"}
    THEN "Noop"
    ELSE "Unhandled"

\* c_call_errno_neg_1!: what a call of the host on a passthrough path returns
\* to the callback, 0 or the negated errno.
HostResults == {0, -ENOENT}

\* What fuse_client_open returns: unwrap_or_return! gives -1 for an error.
fuse_client_open_result(path) ==
    UNION {IF parsed.err # "" THEN {-1}
           ELSE IF parsed.purpose.kind = "PassthroughPath" THEN HostResults
           ELSE IF open_result(parsed.purpose) = "Unhandled" THEN {-1}
           ELSE {0} : parsed \in parse_path(path)}

\* fuse_client_create, fuse_client_chmod and fuse_client_unlink: what the
\* callback returns.  A passthrough path is handed to the host, any other
\* path is refused; the store is not touched.
fuse_client_create(path) ==
    UNION {IF passthrough_path = None THEN {-1}
           ELSE IF passthrough_path[1] # None THEN HostResults
           ELSE {-1} : passthrough_path \in get_passthrough_path(path)}

fuse_client_chmod(path) ==
    UNION {IF passthrough_path = None THEN {-1}
           ELSE IF passthrough_path[1] # None THEN HostResults
           ELSE {-1} : passthrough_path \in get_passthrough_path(path)}

fuse_client_unlink(path) ==
    UNION {IF passthrough_path = None THEN {-1}
           ELSE IF passthrough_path[1] # None THEN HostResults
           ELSE {-1} : passthrough_path \in get_passthrough_path(path)}

\* fuse_client_rename: both paths have to be passthrough paths.
fuse_client_rename(from, to) ==
    UNION {IF from_passthrough_path = None \/ to_passthrough_path = None THEN {-1}
           ELSE IF from_passthrough_path[1] = None \/ to_passthrough_path[1] = None THEN {-1}
           ELSE HostResults :
              from_passthrough_path \in get_passthrough_path(from),
              to_passthrough_path \in get_passthrough_path(to)}

\* fuse_client_chown, fuse_client_truncate and fuse_client_utimens do nothing
\* and return 0.
fuse_client_chown(path) == {0}
fuse_client_truncate(path) == {0}
fuse_client_utimens(path) == {0}

\* fuse_client_open: a passthrough path is opened on the host; Noop, Unhandled
\* and errors change nothing.
fuse_client_open(path) ==
    \E parsed \in parse_path(path) :
        /\ IF parsed.err = "" /\ parsed.purpose.kind # "PassthroughPath"
           THEN open(parsed.purpose)
           ELSE UNCHANGED client_vars
        /\ UNCHANGED <<files, files_seq, relationships, item_relationships, disk, created,
                       filter_vars, version_vars, thread_vars>>

\* What FuseClient::write returns: the request is parsed, run on the store,
\* and only then is the buffer of the handle looked up for the response.
write_result(id, buf) ==
    LET req == from_slice_request(buf)
    IN  IF req = None THEN "ParseJson"
        ELSE IF req[1].type = "create_item"
        THEN IF create_item_result(NextFileId, "none") # "Ok" THEN "CreateItem"
             ELSE IF id \notin DOMAIN open_files THEN "FindResponseHandle"
             ELSE "Ok"
        ELSE IF req[1].type = "create_relationship"
        THEN IF add_relationship_result(req[1].from_name, req[1].to_name, "none") # "Ok"
             THEN "AddRelationship"
             ELSE IF id \notin DOMAIN open_files THEN "FindResponseHandle"
             ELSE "Ok"
        ELSE IF req[1].type = "create_filter"
        THEN IF add_root_filter_result(req[1].filters, "none") # "Ok" THEN "AddFilter" ELSE "Ok"
        ELSE IF add_item_relationship_result(
                    [from_id |-> req[1].from_id, to_id |-> req[1].to_id,
                     relationship_id |-> req[1].relationship_id], "none") # "Ok"
             THEN "AddItemRelationship"
             ELSE "Ok"

\* FuseClient::write: the request is run on the store first, the buffer of
\* the handle is looked up afterwards.
write(id, buf) ==
    LET req == from_slice_request(buf)
    IN  IF req = None
        THEN UNCHANGED vars
        ELSE IF req[1].type = "create_item"
        THEN /\ create_item_db(req[1].name, "none")
             /\ IF create_item_result(NextFileId, "none") = "Ok" /\ id \in DOMAIN open_files
                THEN open_files' =
                         [open_files EXCEPT ![id] =
                             to_writer(@, CreateItemResponse(create_item_response_path(NextFileId)))]
                ELSE UNCHANGED open_files
             /\ UNCHANGED latest_open_id
        ELSE IF req[1].type = "create_relationship"
        THEN /\ add_relationship_db(req[1].from_name, req[1].to_name, "none")
             /\ IF add_relationship_result(req[1].from_name, req[1].to_name, "none") = "Ok"
                   /\ id \in DOMAIN open_files
                THEN open_files' =
                         [open_files EXCEPT ![id] =
                             to_writer(@, CreateRelationshipResponse(
                                 create_relationship_response_path(
                                     NextRowId(StoredRelationshipIds))))]
                ELSE UNCHANGED open_files
             /\ UNCHANGED latest_open_id
        ELSE IF req[1].type = "create_filter"
        THEN add_filter(req[1].name, req[1].filters) /\ UNCHANGED client_vars
        ELSE /\ add_item_relationship_db(req[1].from_id, req[1].to_id,
                                         req[1].relationship_id, "none")
             /\ UNCHANGED client_vars

\* fuse_client_write: every path that is not a passthrough path is handed to
\* FuseClient::write with the handle of the fuse_file_info.
fuse_client_write(path, fh, buf) ==
    \E passthrough_path \in get_passthrough_path(path) :
        IF passthrough_path = Some(None)
        THEN write(fh, buf) /\ UNCHANGED thread_vars
        ELSE UNCHANGED vars

\* What FuseClient::read puts into a buffer of the caller that is large
\* enough: for the socket the bytes of the buffer of the handle, for a
\* metadata file its content, whatever the handle; None for Err.
read_result(purpose, id) ==
    CASE purpose.kind = "Socket" ->
            IF id \in DOMAIN open_files THEN Some(open_files[id]) ELSE None
      [] purpose.kind = "ItemId" -> Some(get_item_id_file_contents(purpose.item_id))
      [] purpose.kind = "ItemName" -> Some(get_item_name_file_contents(purpose.item_id))
      [] purpose.kind = "RelationshipId" ->
            Some(get_relationship_id_file_contents(purpose.relationship_id))
      [] purpose.kind = "RelationshipFromName" ->
            Some(get_relationship_from_name_file_contents(purpose.relationship_id))
      [] purpose.kind = "RelationshipToName" ->
            Some(get_relationship_to_name_file_contents(purpose.relationship_id))
      [] OTHER -> None

\* FuseClient::read on the socket: the bytes returned leave the buffer.
read(purpose, id) ==
    IF purpose.kind = "Socket" /\ id \in DOMAIN open_files
    THEN open_files' = [open_files EXCEPT ![id] = <<>>] /\ UNCHANGED latest_open_id
    ELSE UNCHANGED client_vars

\* fuse_client_read
fuse_client_read(path, fh) ==
    \E parsed \in parse_path(path) :
        /\ IF parsed.err = "" /\ parsed.purpose.kind # "PassthroughPath"
           THEN read(parsed.purpose, fh)
           ELSE UNCHANGED client_vars
        /\ UNCHANGED <<files, files_seq, relationships, item_relationships, disk, created,
                       filter_vars, version_vars, thread_vars>>

\* FuseClient::release
release(id) == open_files' = remove(open_files, id) /\ UNCHANGED latest_open_id

\* fuse_client_release
fuse_client_release(path, fh) ==
    \E passthrough_path \in get_passthrough_path(path) :
        /\ IF passthrough_path = Some(None) THEN release(fh) ELSE UNCHANGED client_vars
        /\ UNCHANGED <<files, files_seq, relationships, item_relationships, disk, created,
                       filter_vars, version_vars, thread_vars>>

(***************************************************************************)
(* The callbacks on the threads of the FUSE loop.  A callback calls        *)
(* get_client first and keeps the MutexGuard until it returns; what it     *)
(* does to the FuseClient in between is a sequence of steps.               *)
(***************************************************************************)
\* Mutant: the FuseClient is handed out without waiting for the Mutex.
get_client_unlocked(t) == lock' = Some(t)

\* get_client: (*client).lock() returns once no other thread holds the Mutex.
get_client(t) == lock = None /\ lock' = Some(t)

\* The MutexGuard goes out of scope when the callback returns.
drop_client(t) == lock' = IF lock = Some(t) THEN None ELSE lock

\* The first step of the callbacks a thread can be called with: open of the
\* socket when the thread holds no handle; write of a create_item request,
\* and release, on the handle it holds; readdir.
CallbacksOf(t) ==
    (IF locals[t].fh = None /\ latest_open_id < MaxOpenId THEN {"open_insert"} ELSE {})
    \cup (IF locals[t].fh # None /\ NextFileId <= MaxItemId THEN {"write_insert"} ELSE {})
    \cup (IF locals[t].fh # None THEN {"release_remove"} ELSE {})
    \cup {"readdir"}

\* A callback starts on a thread.
thread_call(t) ==
    /\ pc[t] = "idle"
    /\ get_client(t)
    /\ \E callback \in CallbacksOf(t) : pc' = [pc EXCEPT ![t] = callback]
    /\ UNCHANGED <<files, files_seq, relationships, item_relationships, disk, created,
                   filter_vars, version_vars, client_vars, locals>>

\* FuseClient::open on the socket: self.open_files.insert(self.latest_open_id, ..)
thread_open_insert(t) ==
    /\ pc[t] = "open_insert"
    /\ open_files' = insert(open_files, latest_open_id, <<>>)
    /\ pc' = [pc EXCEPT ![t] = "open_id"]
    /\ UNCHANGED <<files, files_seq, relationships, item_relationships, disk, created,
                   filter_vars, version_vars, latest_open_id, lock, locals>>

\* let id = self.latest_open_id;
thread_open_id(t) ==
    /\ pc[t] = "open_id"
    /\ locals' = [locals EXCEPT ![t].id = latest_open_id]
    /\ pc' = [pc EXCEPT ![t] = "open_increment"]
    /\ UNCHANGED <<files, files_seq, relationships, item_relationships, disk, created,
                   filter_vars, version_vars, client_vars, lock>>

\* self.latest_open_id += 1; Ok(OpenRet::Socket(id)) and (*info).fh = id
thread_open_increment(t) ==
    /\ pc[t] = "open_increment"
    /\ latest_open_id' = latest_open_id + 1
    /\ locals' = [locals EXCEPT ![t].fh = Some(locals[t].id)]
    /\ pc' = [pc EXCEPT ![t] = "return"]
    /\ UNCHANGED <<files, files_seq, relationships, item_relationships, disk, created,
                   filter_vars, version_vars, open_files, lock>>

\* FuseClient::write of a create_item request, Db::create_item: the row is
\* inserted on the connection that every callback uses.
thread_write_insert(t) ==
    /\ pc[t] = "write_insert"
    /\ files' = Append(files, [id |-> NextFileId, name |-> "alice"])
    /\ files_seq' = NextFileId
    /\ locals' = [locals EXCEPT ![t].id = NextFileId]
    /\ pc' = [pc EXCEPT ![t] = "write_create_dir"]
    /\ UNCHANGED <<relationships, item_relationships, disk, created,
                   filter_vars, version_vars, client_vars, lock>>

\* fs::create_dir_all(item_path) and the commit
thread_write_create_dir(t) ==
    /\ pc[t] = "write_create_dir"
    /\ disk' = create_dir_all(disk, locals[t].id)
    /\ created' = Append(created, [id |-> locals[t].id, live |-> FileIds \ {locals[t].id}])
    /\ pc' = [pc EXCEPT ![t] = "write_respond"]
    /\ UNCHANGED <<files, files_seq, relationships, item_relationships,
                   filter_vars, version_vars, client_vars, lock, locals>>

\* The response is written to the buffer of the handle, if it is there.
thread_write_respond(t) ==
    /\ pc[t] = "write_respond"
    /\ open_files' =
           IF locals[t].fh[1] \in DOMAIN open_files
           THEN [open_files EXCEPT ![locals[t].fh[1]] =
                    to_writer(@, CreateItemResponse(create_item_response_path(locals[t].id)))]
           ELSE open_files
    /\ pc' = [pc EXCEPT ![t] = "return"]
    /\ UNCHANGED <<files, files_seq, relationships, item_relationships, disk, created,
                   filter_vars, version_vars, latest_open_id, lock, locals>>

\* fuse_client_readdir on the directory of every item that /items lists.
thread_readdir(t) ==
    /\ pc[t] = "readdir"
    /\ locals' = [locals EXCEPT ![t].seen =
                      {listed.err : listed \in
                          UNION {readdir(<<"items", ToString(id)>>) : id \in FileIds}}]
    /\ pc' = [pc EXCEPT ![t] = "return"]
    /\ UNCHANGED <<files, files_seq, relationships, item_relationships, disk, created,
                   filter_vars, version_vars, client_vars, lock>>

\* FuseClient::release
thread_release_remove(t) ==
    /\ pc[t] = "release_remove"
    /\ open_files' = remove(open_files, locals[t].fh[1])
    /\ locals' = [locals EXCEPT ![t].fh = None]
    /\ pc' = [pc EXCEPT ![t] = "return"]
    /\ UNCHANGED <<files, files_seq, relationships, item_relationships, disk, created,
                   filter_vars, version_vars, latest_open_id, lock>>

\* The callback returns.
thread_return(t) ==
    /\ pc[t] = "return"
    /\ drop_client(t)
    /\ pc' = [pc EXCEPT ![t] = "idle"]
    /\ UNCHANGED <<files, files_seq, relationships, item_relationships, disk, created,
                   filter_vars, version_vars, client_vars, locals>>

(***************************************************************************)
(* Db::new, upgrade_db                                                     *)
(***************************************************************************)
upgrade_fns == <<"generate_v1_db", "upgrade_v1_v2">>

EXPECTED_VERSION == 2

\* CREATE TABLE IF NOT EXISTS for the version 1 tables, which leaves the rows
\* of a table that exists alone, and PRAGMA user_version = 1.
generate_v1_db(db) == [db EXCEPT !.user_version = 1]

\* Renames the version 1 tables filters and no_relationship_filters, which
\* fails unless they are there under these names; creates root_filters and
\* copies every id of condition_sets into it; creates the empty tables of
\* version 2; PRAGMA user_version = 2.
upgrade_v1_v2(db) ==
    IF db.user_version # 1 THEN [db EXCEPT !.failed = TRUE]
    ELSE [db EXCEPT !.user_version = 2,
                    !.root_filters = [i \in 1..Len(condition_sets) |-> condition_sets[i].id]]

\* for upgrade_fn in ... { upgrade_fn(connection)?; }
RECURSIVE run_upgrade_fns(_, _)
run_upgrade_fns(fns, db) ==
    IF fns = <<>> \/ db.failed THEN db
    ELSE run_upgrade_fns(Tail(fns),
             IF Head(fns) = "generate_v1_db" THEN generate_v1_db(db) ELSE upgrade_v1_v2(db))

\* Mutant: no migration is skipped.
skip_none(fns, n) == fns

\* Iterator::skip
skip(fns, n) == SubSeq(fns, n + 1, Len(fns))

\* Db::new on a store directory: upgrade_db inside one transaction.  An error
\* of a migration and a failed assert_eq! on the version drop the transaction.
new ==
    LET current_version == user_version
        fns == skip(upgrade_fns, current_version)
        db == run_upgrade_fns(fns, [user_version |-> current_version,
                                    root_filters |-> root_filters, failed |-> FALSE])
        ok == ~db.failed /\ db.user_version = EXPECTED_VERSION
    IN  /\ user_version' = Finish(ok, user_version, db.user_version)
        /\ root_filters' = Finish(ok, root_filters, db.root_filters)
        /\ upgrade_fns_run' = Finish(ok, upgrade_fns_run, fns)
        /\ opened' = (opened \/ ok)
        /\ UNCHANGED <<files, files_seq, relationships, item_relationships, disk, created,
                       condition_sets, no_relationship_conditions,
                       has_relationship_with_variable_item_conditions,
                       no_relationship_with_specific_item_conditions, client_vars,
                       thread_vars>>

(***************************************************************************)
(* The store under any sequence of calls, the SQL engine and the host      *)
(* filesystem reporting no error of their own: a call fails only where the *)
(* code or a constraint of the schema rejects it.                          *)
(***************************************************************************)
CreateItem == \E name \in ItemNames : create_item(name, "none")

DeleteItem == \E id \in ItemIds : delete_item(id, "none")

AddRelationship ==
    \E from_name \in RelationshipNames, to_name \in RelationshipNames :
        add_relationship(from_name, to_name, "none")

AddItemRelationship ==
    \E from_id \in ItemIds, to_id \in ItemIds, relationship_id \in RelationshipIds :
        add_item_relationship(from_id, to_id, relationship_id, "none")

Next == CreateItem \/ DeleteItem \/ AddRelationship \/ AddItemRelationship

Spec == Init /\ [][Next]_vars

(***************************************************************************)
(* The items and relationships under any sequence of calls in which any    *)
(* step of a call may report an error.                                     *)
(***************************************************************************)
CreateItemFaulty ==
    \E name \in ItemNames, fault \in CreateItemFaults : create_item(name, fault)

DeleteItemFaulty ==
    \E id \in ItemIds, fault \in DeleteItemFaults : delete_item(id, fault)

AddRelationshipFaulty ==
    \E from_name \in RelationshipNames, to_name \in RelationshipNames,
       fault \in AddRelationshipFaults :
        add_relationship(from_name, to_name, fault)

NextFaults == CreateItemFaulty \/ DeleteItemFaulty \/ AddRelationshipFaulty

SpecFaults == Init /\ [][NextFaults]_vars

(***************************************************************************)
(* The store as run_filter reads it: items of one name, two relationships  *)
(* and a few item-relationships of either type, on which every short list  *)
(* of conditions is evaluated.                                             *)
(***************************************************************************)
ConditionRelationships == {<<"parents", "parents">>, <<"children", "children">>}

ConditionItemRelationships ==
    {<<1, 2, 1>>, <<2, 1, 1>>, <<1, 1, 1>>, <<1, 2, 2>>, <<2, 1, 2>>}

\* The conditions run_filter is called with.
Conditions ==
    {NoRelationship("Source", 1), NoRelationship("Dest", 1), NoRelationship("Source", 2),
     HasRelationshipWithVariableItem("Source", 1), HasRelationshipWithVariableItem("Dest", 1),
     NoRelationshipWithSpecificItem(2, "Source", 1)}

ConditionLists == UNION {[1..n -> Conditions] : n \in 0..MaxConditions}

ConditionsCreateItem == create_item("alice", "none")

ConditionsAddRelationship ==
    \E names \in ConditionRelationships : add_relationship(names[1], names[2], "none")

ConditionsAddItemRelationship ==
    \E row \in ConditionItemRelationships :
        add_item_relationship(row[1], row[2], row[3], "none")

NextConditions ==
    ConditionsCreateItem \/ DeleteItem \/ ConditionsAddRelationship \/ ConditionsAddItemRelationship

SpecConditions == Init /\ [][NextConditions]_vars

(***************************************************************************)
(* The store as the item directories show it when relationship names are   *)
(* names the item directory uses itself: add_relationship takes any two    *)
(* strings.                                                                *)
(***************************************************************************)
LabelRelationships == {<<"parents", "content">>, <<"name", "children">>}

LabelItemRelationships == {<<1, 2, 1>>, <<2, 1, 1>>, <<1, 2, 2>>, <<2, 1, 2>>}

LabelsAddRelationship ==
    \E names \in LabelRelationships : add_relationship(names[1], names[2], "none")

LabelsAddItemRelationship ==
    \E row \in LabelItemRelationships :
        add_item_relationship(row[1], row[2], row[3], "none")

NextLabels == CreateItem \/ DeleteItem \/ LabelsAddRelationship \/ LabelsAddItemRelationship

SpecLabels == Init /\ [][NextLabels]_vars

(***************************************************************************)
(* The store with root filters: items, relationships and item-relationships *)
(* are created and root filters are added, in any order.  The relationships *)
(* and item-relationships are drawn from a few, so that the filters can be  *)
(* many.                                                                    *)
(***************************************************************************)
FilterNames == {"orphans", "items"}

FilterConditions ==
    {<<>>,
     <<NoRelationship("Dest", 1)>>,
     <<HasRelationshipWithVariableItem("Source", 1)>>}

FilterRelationships == {<<"parents", "children">>, <<"parents", "parents">>}

FilterItemRelationships == {<<1, 2, 1>>, <<2, 1, 1>>}

FiltersAddRelationship ==
    \E names \in FilterRelationships : add_relationship(names[1], names[2], "none")

FiltersAddItemRelationship ==
    \E row \in FilterItemRelationships :
        add_item_relationship(row[1], row[2], row[3], "none")

AddRootFilter ==
    \E name \in FilterNames, conditions \in FilterConditions :
        add_root_filter(name, conditions, "none")

NextFilters ==
    CreateItem \/ FiltersAddRelationship \/ FiltersAddItemRelationship \/ AddRootFilter

SpecFilters == Init /\ [][NextFilters]_vars

(***************************************************************************)
(* The store with condition sets: root filters are added with lists that   *)
(* mix the three Condition variants, any step of add_root_filter may report *)
(* an error, and items are created and deleted around them.                *)
(***************************************************************************)
SetNames == {"orphans"}

\* The lists add_root_filter is called with: in the order of the tables and
\* not, with a relationship or an item that may not be stored, and with one
\* NoRelationship condition twice.
SetConditionLists ==
    {<<>>,
     <<NoRelationship("Dest", 1)>>,
     <<NoRelationship("Source", 1), HasRelationshipWithVariableItem("Dest", 1),
       NoRelationshipWithSpecificItem(1, "Source", 1)>>,
     <<HasRelationshipWithVariableItem("Source", 1), NoRelationship("Dest", 1)>>,
     <<NoRelationshipWithSpecificItem(2, "Dest", 1)>>,
     <<NoRelationship("Dest", 1), NoRelationship("Dest", 2)>>,
     <<NoRelationship("Dest", 1), NoRelationship("Dest", 1)>>}

SetsCreateItem == create_item("alice", "none")

SetRelationships == {<<"parents", "children">>, <<"name", "content">>}

SetsAddRelationship ==
    \E names \in SetRelationships : add_relationship(names[1], names[2], "none")

SetsAddItemRelationship == add_item_relationship(1, 2, 1, "none")

AddRootFilterFaulty ==
    \E name \in SetNames, conditions \in SetConditionLists, fault \in AddFilterFaults :
        add_root_filter(name, conditions, fault)

NextSets ==
    \/ SetsCreateItem
    \/ DeleteItem
    \/ SetsAddRelationship
    \/ SetsAddItemRelationship
    \/ AddRootFilterFaulty

SpecSets == Init /\ [][NextSets]_vars

(***************************************************************************)
(* The mounted filesystem: clients open the socket and the name file of    *)
(* item 1, write requests, read the responses and close their handles.  A  *)
(* callback on the socket carries a handle that open returned and that was *)
(* not released; a callback on a file that open answered with Noop carries *)
(* the handle 0 the fuse_file_info starts with.                            *)
(***************************************************************************)
CallbackPaths == {API_HANDLE_PATH, <<"items", "1", "name">>}

Requests ==
    {CreateItemRequest(name) : name \in ItemNames}
    \cup {CreateRelationshipRequest(names[1], names[2]) : names \in FilterRelationships}
    \cup {MalformedRequest}

\* The handles the callbacks on a path can carry: write, read and release
\* follow an open of the path that returned 0.
HandlesOf(path) ==
    IF 0 \notin fuse_client_open_result(path) THEN {}
    ELSE IF path = API_HANDLE_PATH THEN DOMAIN open_files ELSE {0}

FuseOpen == \E path \in CallbackPaths : fuse_client_open(path)

FuseWrite ==
    \E path \in CallbackPaths, buf \in Requests :
        \E fh \in HandlesOf(path) : fuse_client_write(path, fh, buf)

FuseRead ==
    \E path \in CallbackPaths : \E fh \in HandlesOf(path) : fuse_client_read(path, fh)

FuseRelease ==
    \E path \in CallbackPaths : \E fh \in HandlesOf(path) : fuse_client_release(path, fh)

NextFuse == FuseOpen \/ FuseWrite \/ FuseRead \/ FuseRelease

SpecFuse == Init /\ [][NextFuse]_vars

(***************************************************************************)
(* The socket: clients open it, write requests of the four kinds and a     *)
(* text that is no request, read and close.  Clients also try to open      *)
(* other paths: a metadata file, a directory and a link.                   *)
(***************************************************************************)
SocketPaths ==
    {API_HANDLE_PATH, <<"items", "1", "name">>, <<"items", "1">>,
     <<"items", "1", "children", "alice">>}

SocketRequests ==
    {CreateItemRequest("alice"),
     CreateRelationshipRequest("parents", "children"),
     CreateItemRelationshipRequest(1, 1, 1),
     CreateFilterRequest("orphans", <<NoRelationship("Dest", 1)>>),
     MalformedRequest}

SocketOpen == \E path \in SocketPaths : fuse_client_open(path)

SocketWrite ==
    \E buf \in SocketRequests : \E fh \in DOMAIN open_files :
        fuse_client_write(API_HANDLE_PATH, fh, buf)

SocketRead == \E fh \in DOMAIN open_files : fuse_client_read(API_HANDLE_PATH, fh)

SocketRelease == \E fh \in DOMAIN open_files : fuse_client_release(API_HANDLE_PATH, fh)

NextSocket == SocketOpen \/ SocketWrite \/ SocketRead \/ SocketRelease

SpecSocket == Init /\ [][NextSocket]_vars

(***************************************************************************)
(* The socket and a metadata file in the hands of two clients.  A client   *)
(* that opened the socket holds the handle open returned, in the           *)
(* fuse_file_info of its file, until it releases the socket; it writes and *)
(* reads with that handle.  Around them the name file of item 1 is opened, *)
(* read and released, with the handle 0 its fuse_file_info starts with.    *)
(* A callback runs under the Mutex from its first step to its last.        *)
(***************************************************************************)
METADATA_FILE == <<"items", "1", "name">>

\* fuse_client_open on the socket: (*info).fh = id
HandlesOpen ==
    \E t \in Threads :
        /\ locals[t].fh = None
        /\ 0 \in fuse_client_open_result(API_HANDLE_PATH)
        /\ open(Socket)
        /\ locals' = [locals EXCEPT ![t].fh = Some(latest_open_id)]
        /\ UNCHANGED <<files, files_seq, relationships, item_relationships, disk, created,
                       filter_vars, version_vars, lock, pc>>

HandlesWrite ==
    \E t \in Threads, buf \in SocketRequests :
        /\ locals[t].fh # None
        /\ fuse_client_write(API_HANDLE_PATH, locals[t].fh[1], buf)

HandlesRead ==
    \E t \in Threads :
        /\ locals[t].fh # None
        /\ fuse_client_read(API_HANDLE_PATH, locals[t].fh[1])

\* fuse_client_release on the socket; the file of the client is closed.
HandlesRelease ==
    \E t \in Threads :
        /\ locals[t].fh # None
        /\ get_passthrough_path(API_HANDLE_PATH) = {Some(None)}
        /\ release(locals[t].fh[1])
        /\ locals' = [locals EXCEPT ![t].fh = None]
        /\ UNCHANGED <<files, files_seq, relationships, item_relationships, disk, created,
                       filter_vars, version_vars, lock, pc>>

MetadataOpen == fuse_client_open(METADATA_FILE)

MetadataRead ==
    0 \in fuse_client_open_result(METADATA_FILE) /\ fuse_client_read(METADATA_FILE, 0)

MetadataRelease ==
    0 \in fuse_client_open_result(METADATA_FILE) /\ fuse_client_release(METADATA_FILE, 0)

NextHandles ==
    \/ HandlesOpen
    \/ HandlesWrite
    \/ HandlesRead
    \/ HandlesRelease
    \/ MetadataOpen
    \/ MetadataRead
    \/ MetadataRelease

SpecHandles == Init /\ [][NextHandles]_vars

(***************************************************************************)
(* The mounted filesystem with callbacks arriving on two threads at any    *)
(* time.                                                                   *)
(***************************************************************************)
ThreadCall == \E t \in Threads : thread_call(t)

ThreadOpenInsert == \E t \in Threads : thread_open_insert(t)

ThreadOpenId == \E t \in Threads : thread_open_id(t)

ThreadOpenIncrement == \E t \in Threads : thread_open_increment(t)

ThreadWriteInsert == \E t \in Threads : thread_write_insert(t)

ThreadWriteCreateDir == \E t \in Threads : thread_write_create_dir(t)

ThreadWriteRespond == \E t \in Threads : thread_write_respond(t)

ThreadReaddir == \E t \in Threads : thread_readdir(t)

ThreadReleaseRemove == \E t \in Threads : thread_release_remove(t)

ThreadReturn == \E t \in Threads : thread_return(t)

NextThreads ==
    \/ ThreadCall
    \/ ThreadOpenInsert
    \/ ThreadOpenId
    \/ ThreadOpenIncrement
    \/ ThreadWriteInsert
    \/ ThreadWriteCreateDir
    \/ ThreadWriteRespond
    \/ ThreadReaddir
    \/ ThreadReleaseRemove
    \/ ThreadReturn

SpecThreads == Init /\ [][NextThreads]_vars

(***************************************************************************)
(* A store directory found at schema version 0 (no metadata.db yet), 1 or  *)
(* 2, opened by Db::new once or again, and used once it is open.  A        *)
(* version 1 store may hold a filter.                                      *)
(***************************************************************************)
InitStored ==
    /\ user_version \in 0..EXPECTED_VERSION
    /\ condition_sets \in
           IF user_version = 1
           THEN {<<>>} \cup {<<[id |-> 1, name |-> n]>> : n \in FilterNames}
           ELSE {<<>>}
    /\ opened = FALSE
    /\ upgrade_fns_run = <<>>
    /\ files = <<>>
    /\ files_seq = 0
    /\ relationships = <<>>
    /\ item_relationships = <<>>
    /\ no_relationship_conditions = <<>>
    /\ has_relationship_with_variable_item_conditions = <<>>
    /\ no_relationship_with_specific_item_conditions = <<>>
    /\ root_filters = <<>>
    /\ latest_open_id = 0
    /\ open_files = <<>>
    /\ disk = {}
    /\ created = <<>>
    /\ lock = <<>>
    /\ pc = [t \in Threads |-> "idle"]
    /\ locals = [t \in Threads |-> [fh |-> <<>>, id |-> 0, seen |-> {}]]

OpenStore == new

OpenedCreateItem == opened /\ CreateItem

OpenedAddRelationship == opened /\ AddRelationship

NextUpgrade == OpenStore \/ OpenedCreateItem \/ OpenedAddRelationship

SpecUpgrade == InitStored /\ [][NextUpgrade]_vars

(***************************************************************************)
(* Properties.                                                             *)
(***************************************************************************)
\* A step that changes a variable: a call that changes none is a stuttering
\* step, which every [][A]_vars allows.
Changed == vars' # vars

NameInUse(n) ==
    \E i \in 1..Len(relationships) :
        relationships[i].from_name = n \/ relationships[i].to_name = n

\* C1: every name slot (from_name, to_name) of every stored relationship is
\* unique across all name slots of all stored relationships, the two slots of
\* one relationship included.
C1_NameSlotsUnique ==
    \A i, j \in 1..Len(relationships) :
        /\ relationships[i].from_name # relationships[j].to_name
        /\ i # j => /\ relationships[i].from_name # relationships[j].from_name
                    /\ relationships[i].to_name # relationships[j].to_name

\* C2: when the SQL engine reports no error, add_relationship(f, t) returns
\* AlreadyExists exactly when f or t is the from_name or the to_name of a stored
\* relationship, and then relationships is unchanged; otherwise it returns Ok
\* and appends the one row (new id, f, t), the id being that of no earlier row.
C2_AddRelationshipOutcome ==
    /\ [](\A f, t \in RelationshipNames :
            add_relationship_result(f, t, "none") =
                IF NameInUse(f) \/ NameInUse(t) THEN "AlreadyExists" ELSE "Ok")
    /\ [][Changed => \A f, t \in RelationshipNames :
            add_relationship(f, t, "none") =>
                IF NameInUse(f) \/ NameInUse(t)
                THEN relationships' = relationships
                ELSE /\ Len(relationships') = Len(relationships) + 1
                     /\ SubSeq(relationships', 1, Len(relationships)) = relationships
                     /\ relationships'[Len(relationships')].from_name = f
                     /\ relationships'[Len(relationships')].to_name = t
                     /\ relationships'[Len(relationships')].id \notin StoredRelationshipIds
         ]_vars

\* Two relationships are stored (the second was added beside the first) and a
\* further call is rejected.
C2_Witness ==
    /\ Len(relationships) = 2
    /\ \E f, t \in RelationshipNames : add_relationship_result(f, t, "none") = "AlreadyExists"

\* C3: item_relationships holds no triple twice, and every row's from_id and
\* to_id are ids of rows of files and its relationship_id the id of a row of
\* relationships.
C3_ItemRelationshipsIntegrity ==
    /\ \A i, j \in 1..Len(item_relationships) :
           i # j => item_relationships[i] # item_relationships[j]
    /\ \A i \in 1..Len(item_relationships) :
           /\ item_relationships[i].from_id \in FileIds
           /\ item_relationships[i].to_id \in FileIds
           /\ item_relationships[i].relationship_id \in StoredRelationshipIds

\* Rows are stored, an item that was created has been deleted, and an insert
\* that names it would be rejected.
C3_Witness ==
    /\ Len(item_relationships) >= 1
    /\ \E k \in 1..Len(created) :
           /\ created[k].id \notin FileIds
           /\ add_item_relationship_result(
                  [from_id |-> created[k].id, to_id |-> created[k].id,
                   relationship_id |-> item_relationships[1].relationship_id],
                  "none") = "InsertRelationship"

ItemRelationshipRows ==
    [from_id : ItemIds, to_id : ItemIds, relationship_id : RelationshipIds]

ItemRelationshipRejected(row) ==
    \/ \E i \in 1..Len(item_relationships) : item_relationships[i] = row
    \/ \A i \in 1..Len(files) : files[i].id # row.from_id
    \/ \A i \in 1..Len(files) : files[i].id # row.to_id
    \/ \A i \in 1..Len(relationships) : relationships[i].id # row.relationship_id

\* C4: when the SQL engine reports no error, add_item_relationship(from, to,
\* rel) returns InsertRelationship and leaves item_relationships unchanged when
\* the triple is already stored or from, to or rel is not the id of a row of
\* files / relationships; otherwise it returns Ok and appends that one row.
C4_AddItemRelationshipOutcome ==
    /\ [](\A row \in ItemRelationshipRows :
            add_item_relationship_result(row, "none") =
                IF ItemRelationshipRejected(row) THEN "InsertRelationship" ELSE "Ok")
    /\ [][Changed => \A row \in ItemRelationshipRows :
            add_item_relationship(row.from_id, row.to_id, row.relationship_id, "none") =>
                IF ItemRelationshipRejected(row)
                THEN item_relationships' = item_relationships
                ELSE item_relationships' = Append(item_relationships, row)
         ]_vars

\* A row is stored, so the same triple is rejected, and so is a row that
\* names an id files does not hold.
C4_Witness ==
    /\ Len(item_relationships) >= 1
    /\ add_item_relationship_result(item_relationships[1], "none") = "InsertRelationship"
    /\ \E row \in ItemRelationshipRows :
           /\ row.from_id \notin FileIds
           /\ row.to_id \in FileIds
           /\ row.relationship_id \in StoredRelationshipIds
           /\ add_item_relationship_result(row, "none") = "InsertRelationship"

\* C5: after a successful delete_item(id), get_item_by_id(id) is None, the
\* directory <root>/items/<id> does not exist, no item_relationships row has
\* from_id = id or to_id = id and no item lists id as a sibling; the rows of
\* files of the other items and the item_relationships rows that do not touch
\* id are the same as before, in the same order.
C5_DeleteItemEffect ==
    [][Changed => \A id \in ItemIds, fault \in DeleteItemFaults :
          (delete_item(id, fault) /\ delete_item_result(id, fault) = "Ok") =>
              /\ get_item_by_id(id)' = None
              /\ id \notin disk'
              /\ \A i \in 1..Len(item_relationships') :
                     /\ item_relationships'[i].from_id # id
                     /\ item_relationships'[i].to_id # id
              /\ \A i \in 1..Len(get_items') :
                     \A k \in 1..Len(get_items'[i].relationships) :
                         get_items'[i].relationships[k].sibling # id
              /\ files' = SelectSeq(files, LAMBDA r : r.id # id)
              /\ item_relationships' =
                     SelectSeq(item_relationships, LAMBDA r : r.from_id # id /\ r.to_id # id)
      ]_vars

\* An item that was created is gone, with its directory, while another item
\* and an item_relationships row remain.
C5_Witness ==
    /\ \E k \in 1..Len(created) : created[k].id \notin FileIds /\ created[k].id \notin disk
    /\ Len(files) >= 1
    /\ Len(item_relationships) >= 1

\* C6: a row for item id exists in files if and only if the directory
\* <root>/items/<id> exists, also after calls that fail at a sub-step.
C6_RowIffDirectory == \A id \in ItemIds : id \in FileIds <=> id \in disk

\* C7: a successful create_item(name) returns an id for which get_item_by_id
\* yields the item with that id, that name and no relationships, whose content
\* directory exists; every item stored before is reported as before.
C7_CreateItemEffect ==
    [][Changed => \A name \in ItemNames, fault \in CreateItemFaults, id \in ItemIds :
          (/\ create_item(name, fault)
           /\ create_item_result(id, fault) = "Ok"
           /\ id = NextFileId) =>
              /\ get_item_by_id(id)' =
                     Some([path |-> id, id |-> id, relationships |-> <<>>, name |-> name])
              /\ id \in disk'
              /\ created'[Len(created')].id = id
              /\ \A old \in FileIds : get_item_by_id(old)' = get_item_by_id(old)
      ]_vars

\* The last create_item succeeded while another item, with a relationship,
\* was stored.
C7_Witness ==
    /\ Len(created) >= 2
    /\ created[Len(created)].live # {}
    /\ created[Len(created)].id \in FileIds
    /\ Len(files) >= 2
    /\ Len(item_relationships) >= 1

\* C8: if the directory <root>/items/<id> of the id the store is about to
\* assign exists, create_item (its transaction started and its insert done)
\* returns ItemExists, and files and the items get_items returns are as before.
C8_CreateItemExistsOnDisk ==
    /\ [](NextFileId \in disk =>
            \A fault \in CreateItemFaults \ {"StartTransaction", "InsertItem"} :
                create_item_result(NextFileId, fault) = "ItemExists")
    /\ [][Changed => \A name \in ItemNames, fault \in CreateItemFaults :
            (create_item(name, fault) /\ NextFileId \in disk) =>
                /\ files' = files
                /\ files_seq' = files_seq
                /\ get_items' = get_items
         ]_vars

\* The directory of the next id exists and create_item can be called.
C8_Witness ==
    /\ NextFileId \in disk
    /\ NextFileId <= MaxItemId
    /\ Len(files) >= 1

\* C9: every successful create_item returns an id greater than the ids all
\* earlier successful create_item calls returned, deletions in between or not.
C9_ItemIdsIncrease ==
    \A i, j \in 1..Len(created) : i < j => created[i].id < created[j].id

\* A create_item succeeded after the item of the highest id had been deleted.
C9_Witness ==
    \E k \in 2..Len(created) : created[k - 1].id \notin created[k].live

\* C10: for every item_relationships row (A, B, R), get_item_by_id(A) lists
\* (id R, side Source, sibling B) and get_item_by_id(B) lists (id R, side Dest,
\* sibling A); the relationships of every item of get_items hold one entry for
\* each row the item is the from_id of and one for each row it is the to_id
\* of, and no other entry.
C10_ItemRelationshipsReported ==
    /\ \A i \in 1..Len(item_relationships) :
         LET row == item_relationships[i]
             a == get_item_by_id(row.from_id)
             b == get_item_by_id(row.to_id)
         IN  /\ a # None
             /\ \E k \in 1..Len(a[1].relationships) :
                    a[1].relationships[k] =
                        [id |-> row.relationship_id, sibling |-> row.to_id, side |-> "Source"]
             /\ b # None
             /\ \E k \in 1..Len(b[1].relationships) :
                    b[1].relationships[k] =
                        [id |-> row.relationship_id, sibling |-> row.from_id, side |-> "Dest"]
    /\ \A n \in 1..Len(get_items) :
         LET item == get_items[n]
         IN  /\ Len(item.relationships) =
                    Len(SelectSeq(item_relationships, LAMBDA r : r.from_id = item.id))
                    + Len(SelectSeq(item_relationships, LAMBDA r : r.to_id = item.id))
             /\ \A k \in 1..Len(item.relationships) :
                  LET e == item.relationships[k]
                  IN  \E i \in 1..Len(item_relationships) :
                        \/ /\ e.side = "Source"
                           /\ item_relationships[i] =
                                  [from_id |-> item.id, to_id |-> e.sibling,
                                   relationship_id |-> e.id]
                        \/ /\ e.side = "Dest"
                           /\ item_relationships[i] =
                                  [from_id |-> e.sibling, to_id |-> item.id,
                                   relationship_id |-> e.id]

\* A row relates an item to itself and another row relates two items.
C10_Witness ==
    /\ \E i \in 1..Len(item_relationships) :
           item_relationships[i].from_id = item_relationships[i].to_id
    /\ \E i \in 1..Len(item_relationships) :
           item_relationships[i].from_id # item_relationships[i].to_id

\* Item m is on the other side of a stored row of type rel in which item id is
\* on the given side, and m's name is name.
SiblingRow(id, side, rel, name, m) ==
    /\ \E i \in 1..Len(item_relationships) :
           /\ item_relationships[i].relationship_id = rel
           /\ IF side = "Source"
              THEN item_relationships[i].from_id = id /\ item_relationships[i].to_id = m
              ELSE item_relationships[i].to_id = id /\ item_relationships[i].from_id = m
    /\ \E k \in 1..Len(files) : files[k].id = m /\ files[k].name = name

\* C11: get_sibling_id(item, side, rel, name) returns Some(m) exactly when a
\* row of type rel has item on the given side and m, of that name, on the
\* other; it returns None when no row matches.
C11_GetSiblingId ==
    \A id \in ItemIds, side \in Sides, rel \in RelationshipIds, name \in ItemNames :
        /\ \A m \in ItemIds :
               get_sibling_id(id, side, rel, name) = Ok(Some(m))
                   <=> SiblingRow(id, side, rel, name, m)
        /\ get_sibling_id(id, side, rel, name) = Ok(None)
               <=> ~ \E m \in ItemIds : SiblingRow(id, side, rel, name, m)

\* C12: run_filter with an empty condition list returns the ids of all items
\* in the store, each exactly once.
C12_RunFilterEmpty ==
    \A item_id \in {None} \cup {Some(id) : id \in ItemIds} :
        LET result == run_filter(<<>>, item_id)
        IN  /\ ~result.panicked
            /\ {result.value[i] : i \in 1..Len(result.value)} = FileIds
            /\ Len(result.value) = Cardinality(FileIds)

\* Two items are stored, one of an earlier id is deleted, and a row relates
\* the stored items.
C12_Witness ==
    /\ Len(files) >= 1
    /\ Len(item_relationships) >= 1
    /\ \E k \in 1..Len(created) : created[k].id \notin FileIds
    /\ Len(run_filter(<<>>, None).value) = Len(files)

\* C13: run_filter([NoRelationship(s, r)]) returns exactly the items that have
\* no item_relationships row of type r in which they are on side s (to_id for
\* Dest, from_id for Source), each once.
C13_RunFilterNoRelationship ==
    \A s \in Sides, r \in RelationshipIds :
        LET result == run_filter(<<NoRelationship(s, r)>>, None)
        IN  /\ ~result.panicked
            /\ {result.value[i] : i \in 1..Len(result.value)} =
                   {id \in FileIds :
                       ~ \E i \in 1..Len(item_relationships) :
                           /\ item_relationships[i].relationship_id = r
                           /\ IF s = "Dest" THEN item_relationships[i].to_id = id
                              ELSE item_relationships[i].from_id = id}
            /\ \A i, j \in 1..Len(result.value) :
                   i # j => result.value[i] # result.value[j]

\* A row relates two different items: the filter of one side keeps the one and
\* drops the other, the filter of the other side does the opposite.
C13_Witness ==
    \E i \in 1..Len(item_relationships) :
        LET row == item_relationships[i]
        IN  /\ row.from_id # row.to_id
            /\ run_filter(<<NoRelationship("Dest", row.relationship_id)>>, None).value
                   = <<row.from_id>>
            /\ run_filter(<<NoRelationship("Source", row.relationship_id)>>, None).value
                   = <<row.to_id>>

\* C14: opening a store of schema version 0, 1 or 2 runs exactly the
\* migrations with index >= that version, in list order (generate_v1_db
\* before upgrade_v1_v2), and ends with version 2; opening a version 2 store
\* runs none.  A store that is open has version 2.
C14_UpgradeDb ==
    /\ [](opened => user_version = 2)
    /\ [][Changed => (new =>
            /\ opened'
            /\ user_version' = 2
            /\ user_version = 0 => upgrade_fns_run' = <<"generate_v1_db", "upgrade_v1_v2">>
            /\ user_version = 1 => upgrade_fns_run' = <<"upgrade_v1_v2">>
            /\ user_version = 2 => upgrade_fns_run' = <<>>)
         ]_vars

\* A version 1 store that held a filter has been opened, and used.
C14_Witness ==
    /\ opened
    /\ upgrade_fns_run = <<"upgrade_v1_v2">>
    /\ root_filters = <<1>>
    /\ Len(files) >= 1

\* The entries a directory path shows, whatever the order in which the
\* labels of an item directory are found.
Lists(path, entry) ==
    \A parsed \in parse_path(path) :
        /\ parsed.err = ""
        /\ list_dir_contents(parsed.purpose).err = ""
        /\ entry \in ListingEntries(list_dir_contents(parsed.purpose))
        /\ path_purpose_to_filetype(entry.purpose) = Some(Link)

\* C15: for every stored item-relationship (A, B, R) the directory
\* /items/<A>/<R.to_name> lists a symlink named B.name with purpose ItemLink(B)
\* and /items/<B>/<R.from_name> lists a symlink named A.name with purpose
\* ItemLink(A).
C15_ItemRelationshipLinks ==
    \A k \in 1..Len(item_relationships) :
        LET row == item_relationships[k]
            R == get_relationship(row.relationship_id)[1]
            A == get_item_by_id(row.from_id)[1]
            B == get_item_by_id(row.to_id)[1]
        IN  /\ Lists(<<"items", ToString(A.id), R.to_name>>, Entry(ItemLink(B.id), B.name))
            /\ Lists(<<"items", ToString(B.id), R.from_name>>, Entry(ItemLink(A.id), A.name))

\* The (relationship_id, side) pairs occurring on an item, from the stored rows.
PairsOn(item_id) ==
    {<<row.relationship_id, "Source">> :
        row \in {item_relationships[k] : k \in {k \in 1..Len(item_relationships) :
                                                  item_relationships[k].from_id = item_id}}}
    \cup
    {<<row.relationship_id, "Dest">> :
        row \in {item_relationships[k] : k \in {k \in 1..Len(item_relationships) :
                                                  item_relationships[k].to_id = item_id}}}

\* C16: the listing of /items/<I.id> of a live item I consists of one label
\* entry per distinct (relationship_id, side) pair occurring on I, named by the
\* relationship's from_name when I is on the Dest side and by its to_name when
\* I is on the Source side, followed by the entries content, id and name.
C16_ItemListing ==
    \A i \in 1..Len(files) :
        \A parsed \in parse_path(<<"items", ToString(files[i].id)>>) :
            LET I == files[i].id
                listing == list_dir_contents(parsed.purpose)
                labels == listing.unordered
            IN  /\ parsed.err = ""
                /\ listing.err = ""
                /\ [k \in 1..Len(listing.entries) |-> listing.entries[k].name]
                       = <<"content", "id", "name">>
                /\ \A pair \in PairsOn(I) :
                       Cardinality({e \in labels :
                           e.purpose = ItemRelationships(I, pair[1], pair[2])}) = 1
                /\ Cardinality(labels) = Cardinality(PairsOn(I))
                /\ \A e \in labels :
                       /\ e.purpose.kind = "ItemRelationships"
                       /\ e.purpose.item_id = I
                       /\ <<e.purpose.relationship_id, e.purpose.side>> \in PairsOn(I)
                       /\ e.name = IF e.purpose.side = "Dest"
                                   THEN get_relationship(e.purpose.relationship_id)[1].from_name
                                   ELSE get_relationship(e.purpose.relationship_id)[1].to_name

\* An item with two rows of one (relationship_id, side) pair and a row of
\* another pair, whose directory shows one label for each pair.
C16_Witness ==
    \E i \in 1..Len(files) :
        /\ \E j, k \in 1..Len(item_relationships) :
              /\ j # k
              /\ item_relationships[j].from_id = files[i].id
              /\ item_relationships[k].from_id = files[i].id
              /\ item_relationships[j].relationship_id = item_relationships[k].relationship_id
              /\ item_relationships[j].to_id # files[i].id
        /\ Cardinality(PairsOn(files[i].id)) = 2
        /\ Cardinality(list_dir_contents(Item(files[i].id)).unordered) = 2
        /\ Len(list_dir_contents(Item(files[i].id)).entries) = 3

\* Paths below the synthetic directories: item and relationship directories by
\* id, labels in item directories, and a name that no directory lists.
ProbePaths ==
    {<<"nope">>}
    \cup {<<"items", ToString(id)>> : id \in ItemIds}
    \cup {<<"relationships", ToString(id)>> : id \in RelationshipIds}
    \cup {<<"items", ToString(id), n>> : id \in ItemIds, n \in RelationshipNames}

\* C18: getattr on a path whose purpose resolves to Unknown returns -ENOENT and
\* reports no file type.
C18_GetattrUnknown ==
    \A path \in ProbePaths :
        parse_path(path) = {Parsed(Unknown)} =>
            \A stat \in fuse_client_getattr(path) :
                stat.ret = -ENOENT /\ stat.st_mode = ""

\* The path a relative link target names, seen from the directory `dir`:
\* ".." steps to the parent, and the parent of the root is the root.
RECURSIVE resolve(_, _)
resolve(dir, target) ==
    IF target = <<>> THEN dir
    ELSE IF Head(target) = ".."
    THEN resolve(IF dir = <<>> THEN <<>> ELSE SubSeq(dir, 1, Len(dir) - 1), Tail(target))
    ELSE resolve(Append(dir, Head(target)), Tail(target))

\* The paths of links: a name in a filter directory and a name in a
\* relationship directory of an item.
LinkPaths ==
    {<<f, n>> : f \in FilterNames, n \in ItemNames}
    \cup {<<"items", ToString(id), l, n>> :
              id \in ItemIds, l \in RelationshipNames, n \in ItemNames}

\* C17: for every path p that resolves to ItemLink(id), readlink(p) returns
\* ".." once per component of p, the root counted, less two, followed by
\* items/<id>; taken from the directory that holds the link this target names
\* /items/<id>.
C17_Readlink ==
    \A p \in LinkPaths :
        /\ readlink(p) =
               {IF parsed.err = "" /\ parsed.purpose.kind = "ItemLink"
                THEN Some([k \in 1..((Len(p) + 1) - 2) |-> ".."]
                          \o <<"items", ToString(parsed.purpose.item_id)>>)
                ELSE None : parsed \in parse_path(p)}
        /\ \A parsed \in parse_path(p) :
               (parsed.err = "" /\ parsed.purpose.kind = "ItemLink") =>
                   \E target \in readlink(p) :
                       /\ target # None
                       /\ resolve(SubSeq(p, 1, Len(p) - 1), target[1])
                              = <<"items", ToString(parsed.purpose.item_id)>>
                       /\ parse_path(resolve(SubSeq(p, 1, Len(p) - 1), target[1]))
                              = {Parsed(Item(parsed.purpose.item_id))}

\* A link of a filter directory and a link of a relationship directory, both
\* to item 2, each with the target readlink gives.
C17_Witness ==
    /\ \E f \in FilterNames, n \in ItemNames :
           /\ parse_path(<<f, n>>) = {Parsed(ItemLink(2))}
           /\ readlink(<<f, n>>) = {Some(<<"..", "items", "2">>)}
    /\ \E l \in RelationshipNames, n \in ItemNames :
           /\ parse_path(<<"items", "1", l, n>>) = {Parsed(ItemLink(2))}
           /\ readlink(<<"items", "1", l, n>>) = {Some(<<"..", "..", "..", "items", "2">>)}

\* C20: for every root filter F the top-level directory named F.name lists
\* one ItemLink(id) entry, named by the item's name, for each item id that
\* run_filter returns on F's conditions, and nothing else.
C20_FilterListing ==
    \A i \in 1..Len(get_root_filters) :
        LET F == get_root_filters[i]
            item_ids == run_filter(F.rules, None)
        IN  \A parsed \in parse_path(<<F.name>>) :
                /\ parsed.err = ""
                /\ ~item_ids.panicked
                /\ list_dir_contents(parsed.purpose).err = ""
                /\ list_dir_contents(parsed.purpose).unordered = {}
                /\ list_dir_contents(parsed.purpose).entries =
                       [k \in 1..Len(item_ids.value) |->
                           Entry(ItemLink(item_ids.value[k]),
                                 get_item_by_id(item_ids.value[k])[1].name)]

\* C19: a create_item or create_relationship request written to an open socket
\* handle appends to the buffer of that handle a response with the path
\* /items/<id> resp. /relationships/<id>, which a read on the handle returns;
\* in the state after the write the path resolves to Item(id) resp.
\* Relationship(id), the id is new, and the name file resp. the from_name and
\* to_name files of that directory hold the values of the request.
C19_SocketRoundTrip ==
    [][Changed => \A h \in 0..MaxOpenId :
          /\ \A name \in ItemNames, id \in ItemIds :
                (/\ h \in DOMAIN open_files
                 /\ id = NextFileId
                 /\ files' # files
                 /\ fuse_client_write(API_HANDLE_PATH, h, CreateItemRequest(name))) =>
                    /\ read_result(Socket, h)' =
                           Some(Append(open_files[h], CreateItemResponse(<<"items", ToString(id)>>)))
                    /\ open_files[h] = <<>> =>
                           from_slice_response(read_result(Socket, h)'[1]) =
                               Some(CreateItemResponse(<<"items", ToString(id)>>))
                    /\ id \notin FileIds
                    /\ parse_path(<<"items", ToString(id)>>)' = {Parsed(Item(id))}
                    /\ parse_path(<<"items", ToString(id), "name">>)' = {Parsed(ItemName(id))}
                    /\ get_item_name_file_contents(id)' = with_newline_as_vec(into_bytes(name))
          /\ \A from_name \in RelationshipNames, to_name \in RelationshipNames,
                id \in RelationshipIds :
                (/\ h \in DOMAIN open_files
                 /\ id = NextRowId(StoredRelationshipIds)
                 /\ relationships' # relationships
                 /\ fuse_client_write(API_HANDLE_PATH, h,
                                      CreateRelationshipRequest(from_name, to_name))) =>
                    /\ read_result(Socket, h)' =
                           Some(Append(open_files[h],
                                CreateRelationshipResponse(<<"relationships", ToString(id)>>)))
                    /\ open_files[h] = <<>> =>
                           from_slice_response(read_result(Socket, h)'[1]) =
                               Some(CreateRelationshipResponse(<<"relationships", ToString(id)>>))
                    /\ id \notin StoredRelationshipIds
                    /\ parse_path(<<"relationships", ToString(id)>>)' = {Parsed(Relationship(id))}
                    /\ parse_path(<<"relationships", ToString(id), "from_name">>)'
                           = {Parsed(RelationshipFromName(id))}
                    /\ parse_path(<<"relationships", ToString(id), "to_name">>)'
                           = {Parsed(RelationshipToName(id))}
                    /\ get_relationship_from_name_file_contents(id)'
                           = with_newline_as_vec(into_bytes(from_name))
                    /\ get_relationship_to_name_file_contents(id)'
                           = with_newline_as_vec(into_bytes(to_name))
      ]_vars

\* A handle holds the response to a create_item request and a handle holds
\* the response to a create_relationship request, each the only one of its
\* buffer, and their paths resolve to the item and the relationship.
C19_Witness ==
    /\ \E h \in DOMAIN open_files :
           /\ Len(open_files[h]) = 1
           /\ open_files[h][1].type = "create_item"
           /\ parse_path(open_files[h][1].data.path) = {Parsed(Item(2))}
    /\ \E h \in DOMAIN open_files :
           /\ Len(open_files[h]) = 1
           /\ open_files[h][1].type = "create_relationship"
           /\ parse_path(open_files[h][1].data.path) = {Parsed(Relationship(1))}

\* The ids of a result of run_filter.
Ids(result) == {result.value[k] : k \in 1..Len(result.value)}

\* C21: with a context item, run_filter on a list of conditions returns the
\* items that run_filter returns for each condition of the list alone, in the
\* order of the table, whatever the order of the conditions.
C21_RunFilterConjunction ==
    \A conditions \in ConditionLists, X \in ItemIds :
        LET all == run_filter(<<>>, Some(X))
            result == run_filter(conditions, Some(X))
            each == [k \in 1..Len(conditions) |-> Ids(run_filter(<<conditions[k]>>, Some(X)))]
        IN  /\ ~result.panicked
            /\ result.value =
                   SelectSeq(all.value, LAMBDA id : \A k \in 1..Len(conditions) : id \in each[k])

\* Two conditions that each keep an item the other removes: the list of both
\* returns fewer items than either.
C21_Witness ==
    \E c1, c2 \in Conditions, X \in ItemIds :
        /\ Ids(run_filter(<<c1>>, Some(X))) \ Ids(run_filter(<<c2>>, Some(X))) # {}
        /\ Ids(run_filter(<<c2>>, Some(X))) \ Ids(run_filter(<<c1>>, Some(X))) # {}
        /\ Ids(run_filter(<<c1, c2>>, Some(X))) =
               Ids(run_filter(<<c1>>, Some(X))) \cap Ids(run_filter(<<c2>>, Some(X)))
        /\ run_filter(<<c1, c2>>, Some(X)) = run_filter(<<c2, c1>>, Some(X))

\* A stored row of type r with item I on side s and item X on the other side.
RowWith(I, s, r, X) ==
    \E k \in 1..Len(item_relationships) :
        /\ item_relationships[k].relationship_id = r
        /\ IF s = "Source"
           THEN item_relationships[k].from_id = I /\ item_relationships[k].to_id = X
           ELSE item_relationships[k].to_id = I /\ item_relationships[k].from_id = X

\* Item I satisfies a condition evaluated with the context item X.
Satisfies(I, condition, X) ==
    CASE condition.type = "NoRelationship" ->
            ~\E other \in ItemIds : RowWith(I, condition.side, condition.relationship_id, other)
      [] condition.type = "HasRelationshipWithVariableItem" ->
            RowWith(I, condition.side, condition.relationship_id, X)
      [] condition.type = "NoRelationshipWithSpecificItem" ->
            ~RowWith(I, condition.side, condition.relationship_id, condition.item_id)

\* C22: run_filter([HasRelationshipWithVariableItem(s, r)], Some(X)) returns
\* exactly the items I with a row of type r that has I on side s and X on the
\* other side; ItemFilter::matches(I) is true exactly when the item I satisfies
\* every condition of the filter evaluated with I as the context item.
C22_HasRelationshipWithVariableItem ==
    /\ \A X \in ItemIds, s \in Sides, r \in RelationshipIds :
           LET result == run_filter(<<HasRelationshipWithVariableItem(s, r)>>, Some(X))
           IN  /\ ~result.panicked
               /\ Ids(result) = {I \in FileIds : RowWith(I, s, r, X)}
    /\ \A conditions \in ConditionLists, I \in FileIds :
           matches(conditions, I) =
               Ok(\A k \in 1..Len(conditions) : Satisfies(I, conditions[k], I))

\* Item 1 is the source of a row of type 1 to item 2 and of none to itself:
\* with the context item 2 the condition returns item 1, and the filter of
\* that condition does not match item 1.
C22_Witness ==
    /\ RowWith(1, "Source", 1, 2)
    /\ ~RowWith(1, "Source", 1, 1)
    /\ Ids(run_filter(<<HasRelationshipWithVariableItem("Source", 1)>>, Some(2))) = {1}
    /\ matches(<<HasRelationshipWithVariableItem("Source", 1)>>, 1) = Ok(FALSE)
    /\ matches(<<HasRelationshipWithVariableItem("Dest", 1)>>, 2) = Ok(FALSE)
    /\ matches(<<NoRelationship("Dest", 1)>>, 1) = Ok(TRUE)

\* The paths probed below the content entry of an item directory: the entry
\* itself, a name in it and a name one level deeper, none of which exists on
\* the host.
ContentSuffixes == {<<>>, <<"notes">>, <<"notes", "todo">>}

\* C23, first part: when the parent of a path resolves to PassthroughPath(p),
\* the path resolves to PassthroughPath(p / name), whether or not the host has
\* that entry.
C23_PassthroughChild ==
    \A id \in ItemIds, suffix \in ContentSuffixes, name \in {"notes", "todo"} :
        LET parent == <<"items", ToString(id), "content">> \o suffix
        IN  \A parsed_parent \in parse_path(parent) :
                (parsed_parent.err = "" /\ parsed_parent.purpose.kind = "PassthroughPath")
                    => Parsed(PassthroughPath(Append(parsed_parent.purpose.path, name)))
                           \in parse_path(Append(parent, name))

\* C23: every path at any depth below /items/<id>/content of a live item
\* resolves to a passthrough path inside <root>/items/<id>.
C23_ContentPassthrough ==
    \A id \in FileIds \cap disk, suffix \in ContentSuffixes :
        \A parsed \in parse_path(<<"items", ToString(id), "content">> \o suffix) :
            /\ parsed.err = ""
            /\ parsed.purpose =
                   PassthroughPath(<<"<root>", "items", ToString(id)>> \o suffix)

\* The synthetic directories probed: the root, /items, /relationships, /bin,
\* the directory of every item and relationship id and every label directory.
SyntheticDirs ==
    {<<>>, ITEMS_FOLDER, RELATIONSHIPS_FOLDER, <<"bin">>}
    \cup {<<"items", ToString(id)>> : id \in ItemIds}
    \cup {<<"relationships", ToString(id)>> : id \in RelationshipIds}
    \cup {<<"items", ToString(id), label>> : id \in ItemIds, label \in RelationshipNames}

\* Names looked up in them besides the names they list.
LookupNames == {"nope", "1", "2", "alice", "bob", "id", "name", "items"}

\* C24: in one store state, a path below a synthetic directory d resolves to
\* the purpose of an entry of that name in the listing of d and to Unknown
\* when the listing has no entry of that name; so every name readdir(d)
\* returns resolves to a purpose other than Unknown and a name readdir(d)
\* does not return resolves to Unknown.
C24_ParsePathLookup ==
    \A d \in SyntheticDirs :
        \A listed \in readdir(d) :
            listed.err = "" =>
                LET names == {e.name : e \in ListingEntries(listed)}
                IN  \A name \in names \cup LookupNames :
                        \A parsed \in parse_path(Append(d, name)) :
                            /\ parsed.err = ""
                            /\ (name \in names) <=> (parsed.purpose # Unknown)
                            /\ \E parsed_parent \in parse_path(d) :
                                   /\ parsed_parent.err = ""
                                   /\ parsed \in find(list_dir_contents(parsed_parent.purpose),
                                                      name)

\* C25: an open of the socket takes the handle id latest_open_id, which is
\* greater than every id handed out before, installs an empty buffer for it
\* and counts latest_open_id on; latest_open_id never decreases, so no id is
\* handed out again after its release; every key of open_files is smaller
\* than latest_open_id; release(id) removes the buffer keyed id and leaves
\* every other buffer as it is.
C25_HandleIds ==
    /\ [](\A id \in DOMAIN open_files : id < latest_open_id)
    /\ [][latest_open_id' >= latest_open_id]_vars
    /\ [][Changed => (fuse_client_open(API_HANDLE_PATH) =>
            /\ latest_open_id \notin DOMAIN open_files
            /\ DOMAIN open_files' = DOMAIN open_files \cup {latest_open_id}
            /\ open_files'[latest_open_id] = <<>>
            /\ \A id \in DOMAIN open_files : open_files'[id] = open_files[id]
            /\ latest_open_id' = latest_open_id + 1)
         ]_vars
    /\ [][Changed => \A h \in 0..MaxOpenId :
            (h \in DOMAIN open_files /\ fuse_client_release(API_HANDLE_PATH, h)) =>
                /\ DOMAIN open_files' = DOMAIN open_files \ {h}
                /\ \A id \in DOMAIN open_files' : open_files'[id] = open_files[id]
                /\ latest_open_id' = latest_open_id
         ]_vars

\* An item was created through the socket, the first handle was released and
\* the socket was opened again: the handle that is open is the second.
C25_Witness ==
    /\ latest_open_id = 2
    /\ DOMAIN open_files = {1}
    /\ open_files[1] = <<>>
    /\ Len(files) = 1

\* The response that a request written in this state is answered with when
\* the store accepts it: none for the requests that have no response.
ResponsesTo(buf) ==
    IF buf.type = "create_item"
    THEN <<CreateItemResponse(<<"items", ToString(NextFileId)>>)>>
    ELSE IF buf.type = "create_relationship"
    THEN <<CreateRelationshipResponse(
             <<"relationships", ToString(NextRowId(StoredRelationshipIds))>>)>>
    ELSE <<>>

\* The store tables.
store_vars == <<files, relationships, item_relationships, condition_sets, root_filters>>

CallbackProbes ==
    {<<>>, ITEMS_FOLDER, RELATIONSHIPS_FOLDER, API_HANDLE_PATH, <<"nope">>,
     <<"items", "1">>, <<"items", "1", "id">>, <<"items", "1", "name">>,
     <<"relationships", "1">>, <<"relationships", "1", "from_name">>,
     <<"items", "1", "content">>, <<"items", "1", "content", "notes">>,
     <<"bin", "create-item">>}

\* C27: the store changes only through a write on the socket.  The
\* callbacks getattr, readdir, readlink, create, chmod, chown, truncate,
\* utimens, unlink and rename have no effect on the store and open, read and
\* release leave every store table as it is, so a step that changes a table
\* is a write of a request on an open handle of the socket; create, chmod,
\* unlink and rename on a path that is no passthrough path return an error.
C27_ExclusiveMutationPath ==
    /\ [](\A path \in CallbackProbes :
            get_passthrough_path(path) = {Some(None)} =>
                /\ fuse_client_create(path) = {-1}
                /\ fuse_client_chmod(path) = {-1}
                /\ fuse_client_unlink(path) = {-1}
                /\ \A other \in CallbackProbes :
                       /\ fuse_client_rename(path, other) = {-1}
                       /\ fuse_client_rename(other, path) = {-1})
    /\ [][\A path \in CallbackPaths, fh \in 0..MaxOpenId :
            (fuse_client_open(path) \/ fuse_client_read(path, fh)
                \/ fuse_client_release(path, fh)) => store_vars' = store_vars]_vars
    /\ [][store_vars' # store_vars =>
            \E h \in DOMAIN open_files, buf \in Requests :
                fuse_client_write(API_HANDLE_PATH, h, buf)]_vars

\* The paths whose open is examined: the socket, the metadata files of an
\* item and of a relationship, directories, the link of a label directory,
\* the directory of a root filter and a name that nothing carries.
OpenProbes ==
    {API_HANDLE_PATH, <<"items", "1", "id">>, <<"items", "1", "name">>,
     <<"relationships", "1", "id">>, <<"relationships", "1", "from_name">>,
     <<"relationships", "1", "to_name">>, <<>>, <<"items", "1">>,
     <<"items", "1", "children", "alice">>, <<"orphans">>, <<"nope">>}

MetadataFiles ==
    {"ItemId", "ItemName", "RelationshipId", "RelationshipFromName", "RelationshipToName"}

\* An open of the path that changes the handles.
OpenAllocates(path) == fuse_client_open(path) /\ client_vars' # client_vars

\* C28: open allocates a handle for the socket only.  An open of a metadata
\* file returns 0 and neither adds a buffer nor counts latest_open_id on; an
\* open of any other path that is no passthrough path (a directory, an item
\* link, a path that resolves to Unknown) returns an error and leaves the
\* handles as they are; an open of the socket returns 0 and allocates.
C28_OpenAllocatesForSocketOnly ==
    \A path \in OpenProbes :
        \A parsed \in parse_path(path) :
            (parsed.err = "" /\ parsed.purpose.kind # "PassthroughPath") =>
                IF parsed.purpose.kind = "Socket"
                THEN /\ fuse_client_open_result(path) = {0}
                     /\ latest_open_id < MaxOpenId =>
                            ENABLED (/\ OpenAllocates(path)
                                     /\ open_files' = insert(open_files, latest_open_id, <<>>))
                ELSE /\ fuse_client_open_result(path) =
                            IF parsed.purpose.kind \in MetadataFiles THEN {0} ELSE {-1}
                     /\ ~ENABLED OpenAllocates(path)

\* A handle of the socket is open while the store holds what the probed
\* paths name: the files of item 1 and relationship 1, the link alice below
\* /items/1/children and the directory of the root filter orphans.
C28_Witness ==
    /\ DOMAIN open_files # {}
    /\ parse_path(<<"items", "1", "name">>) = {Parsed(ItemName(1))}
    /\ parse_path(<<"relationships", "1", "to_name">>) = {Parsed(RelationshipToName(1))}
    /\ parse_path(<<"items", "1", "children", "alice">>) = {Parsed(ItemLink(1))}
    /\ parse_path(<<"orphans">>) = {Parsed(Filter(1))}

\* C29: with callbacks arriving on several threads, the steps of two
\* callbacks never interleave: at most one thread is inside a callback, and
\* it holds the lock; threads that opened the socket hold different handle
\* ids, each with its buffer; a step that changes open_files, latest_open_id
\* or a store table is a step of the thread that holds the lock; and a
\* readdir never sees an item whose row is stored while its content directory
\* is not yet made, the state in the middle of a create_item.
C29_CallbacksUnderLock ==
    /\ [](\A t \in Threads : (pc[t] # "idle") <=> (lock = Some(t)))
    /\ [](\A t1, t2 \in Threads :
            (t1 # t2 /\ locals[t1].fh # None /\ locals[t2].fh # None) =>
                locals[t1].fh # locals[t2].fh)
    /\ [](\A t \in Threads :
            (pc[t] = "idle" /\ locals[t].fh # None) => locals[t].fh[1] \in DOMAIN open_files)
    /\ [](\A t \in Threads : locals[t].seen \subseteq {""})
    /\ [][(client_vars' # client_vars \/ store_vars' # store_vars \/ disk' # disk) =>
            /\ lock # None
            /\ lock' = lock
            /\ \A t \in Threads \ {lock[1]} : pc[t] = "idle" /\ pc'[t] = "idle"]_vars

\* Both threads hold a handle of the socket, both items were created through
\* them and a readdir has listed the directory of an item.
C29_Witness ==
    /\ \A t \in Threads : locals[t].fh # None
    /\ Len(files) = 2
    /\ \E t \in Threads : locals[t].seen = {""}
    /\ \E id \in DOMAIN open_files : open_files[id] # <<>>

\* The paths of the metadata files.
MetadataPaths ==
    {<<"items", ToString(id), file>> : id \in ItemIds, file \in {"id", "name"}}
    \cup {<<"relationships", ToString(id), file>> :
              id \in RelationshipIds, file \in {"id", "from_name", "to_name"}}

\* The bytes of the file of a purpose as the tables give them: the decimal
\* digits of the id, or the name stored in the row of that id, and a newline.
StoredBytes(purpose) ==
    CASE purpose.kind = "ItemId" -> <<ToString(purpose.item_id), "\n">>
      [] purpose.kind = "RelationshipId" -> <<ToString(purpose.relationship_id), "\n">>
      [] purpose.kind = "ItemName" ->
            LET row == CHOOSE row \in {files[k] : k \in 1..Len(files)} :
                           row.id = purpose.item_id
            IN  into_bytes(row.name) \o <<"\n">>
      [] purpose.kind = "RelationshipFromName" ->
            LET row == CHOOSE row \in {relationships[k] : k \in 1..Len(relationships)} :
                           row.id = purpose.relationship_id
            IN  into_bytes(row.from_name) \o <<"\n">>
      [] purpose.kind = "RelationshipToName" ->
            LET row == CHOOSE row \in {relationships[k] : k \in 1..Len(relationships)} :
                           row.id = purpose.relationship_id
            IN  into_bytes(row.to_name) \o <<"\n">>

\* C30: a read of a path that resolves to a metadata file returns the bytes
\* computed from the store as it is now, the decimal id and a newline for an
\* id file and the stored name, from_name or to_name and a newline for a name
\* file, whatever the handle and whatever was opened or read before; getattr
\* in the same state reports a regular file of that many bytes.
C30_MetadataRead ==
    \A path \in MetadataPaths :
        \A parsed \in parse_path(path) :
            (parsed.err = "" /\ parsed.purpose.kind \in MetadataFiles) =>
                /\ \A fh \in 0..MaxOpenId :
                       read_result(parsed.purpose, fh) = Some(StoredBytes(parsed.purpose))
                /\ fuse_client_getattr(path) =
                       {Stat(0, S_IFREG, Len(StoredBytes(parsed.purpose)))}

\* The name file of item 1 reads alice and a newline after a second item
\* and a relationship were stored and while the buffer of a handle of the
\* socket holds a response.
C30_Witness ==
    /\ parse_path(<<"items", "1", "name">>) = {Parsed(ItemName(1))}
    /\ read_result(ItemName(1), 0) = Some(<<"a", "l", "i", "c", "e", "\n">>)
    /\ parse_path(<<"relationships", "1", "to_name">>) = {Parsed(RelationshipToName(1))}
    /\ Len(files) = 2
    /\ \E id \in DOMAIN open_files : open_files[id] # <<>>


(***************************************************************************)
(* Root filters as stored and loaded                                       *)
(***************************************************************************)
\* C31: after a successful add_root_filter(name, conditions), get_root_filters
\* returns the root filters it returned before, unchanged, and one more
\* condition set, of that name, whose rules are exactly the given conditions
\* in the given order, whichever of the three Condition variants the list
\* mixes.
C31_RootFilterRules ==
    [][condition_sets' # condition_sets
           => \A name \in SetNames, conditions \in SetConditionLists :
                  add_root_filter(name, conditions, "none")
                      => LET before == get_root_filters
                             after == get_root_filters'
                         IN  /\ Len(after) = Len(before) + 1
                             /\ SubSeq(after, 1, Len(before)) = before
                             /\ after[Len(after)].name = name
                             /\ after[Len(after)].rules = conditions]_vars

\* The calls of add_root_filter that fail: a step of the call reports an error,
\* or a condition of the list names a relationship or an item that is not
\* stored, or the list holds one NoRelationship condition twice, so that an
\* insert fails after the condition set, and maybe earlier conditions, were
\* inserted.
AddRootFilterFails(conditions, fault) ==
    \/ fault \in {"StartTransaction", "InsertFilter", "InsertRootFilter", "CommitTransaction"}
    \/ fault = "InsertRule" /\ conditions # <<>>
    \/ \E k \in 1..Len(conditions) :
           \/ \A i \in 1..Len(relationships) :
                  relationships[i].id # conditions[k].relationship_id
           \/ /\ conditions[k].type = "NoRelationshipWithSpecificItem"
              /\ \A i \in 1..Len(files) : files[i].id # conditions[k].item_id
    \/ \E j, k \in 1..Len(conditions) :
           j < k /\ conditions[j].type = "NoRelationship" /\ conditions[j] = conditions[k]

\* C32: an add_root_filter that fails at any step leaves no new condition
\* set, no new condition row and no new root filter: the tables of the
\* store are what they were, get_condition_sets and get_root_filters return
\* what they returned before the call, and the call reports an error.
C32_AddRootFilterRollback ==
    \A name \in SetNames, conditions \in SetConditionLists, fault \in AddFilterFaults :
        AddRootFilterFails(conditions, fault)
            => /\ add_root_filter_result(conditions, fault) # "Ok"
               /\ ~ENABLED (/\ add_root_filter(name, conditions, fault)
                            /\ \/ vars' # vars
                               \/ get_condition_sets' # get_condition_sets
                               \/ get_root_filters' # get_root_filters)

\* A root filter is stored, relationship 1 is stored and relationship 2 is
\* not: a call with a list whose second condition names relationship 2 fails
\* after the condition set and the first condition were inserted.
C32_Witness ==
    /\ Len(get_root_filters) = 1
    /\ Len(get_root_filters[1].rules) = 3
    /\ StoredRelationshipIds = {1}
    /\ add_root_filter_result(<<NoRelationship("Dest", 1), NoRelationship("Dest", 2)>>, "none")
           = "InsertRule"
    /\ ENABLED add_root_filter("orphans",
                               <<NoRelationship("Dest", 1), NoRelationship("Dest", 2)>>, "none")

(***************************************************************************)
(* The socket while other files are opened and released                    *)
(***************************************************************************)
\* C33: a write on the socket that returns an error (the text is no request,
\* the store rejects the request, or the response handle is missing) has
\* changed nothing: no item, relationship, item-relationship or filter was
\* created by it, and no response buffer was modified.
C33_FailedWriteChangesNothing ==
    \A t \in Threads, buf \in SocketRequests :
        (locals[t].fh # None /\ write_result(locals[t].fh[1], buf) # "Ok")
            => ~ENABLED (/\ fuse_client_write(API_HANDLE_PATH, locals[t].fh[1], buf)
                         /\ vars' # vars)

\* C34: opening, reading and releasing a metadata file never removes or
\* alters the response buffer of an open socket handle: the buffer of a
\* handle exists from the open that returned it until the release of the
\* socket by the client that holds it, whatever the id of the handle.
C34_SocketBufferLifetime ==
    /\ \A t \in Threads : locals[t].fh # None => locals[t].fh[1] \in DOMAIN open_files
    /\ ~ENABLED (/\ \/ MetadataOpen
                    \/ MetadataRead
                    \/ MetadataRelease
                 /\ open_files' # open_files)

(***************************************************************************)
(* Names of the entries of a directory                                     *)
(***************************************************************************)
\* The names of the entries of a listing are pairwise distinct.
DistinctNames(listing) ==
    \A j, k \in 1..Len(listing.entries) :
        j # k => listing.entries[j].name # listing.entries[k].name

\* C35: in every store state reached through create_item, add_relationship,
\* add_item_relationship and delete_item, with item names that need not be
\* unique, get_sibling_id finds at most one match for every item, side,
\* relationship and name, so that it never panics, and no directory of the
\* items on one side of a relationship lists two entries of one name.
C35_SiblingsUnique ==
    \A id \in ItemIds, side \in Sides, rel \in RelationshipIds :
        /\ \A name \in ItemNames : ~get_sibling_id(id, side, rel, name).panicked
        /\ DistinctNames(list_dir_contents(ItemRelationships(id, rel, side)))

\* C36: the entries listed for the directory of an item have pairwise
\* distinct names, so the names content, id and name resolve to the content
\* passthrough and to the metadata files of the item, whatever the names of
\* the relationships are.
C36_ItemEntriesDistinct ==
    \A id \in FileIds \cap disk :
        LET listing == list_dir_contents(Item(id))
            dir == <<"items", ToString(id)>>
        IN  /\ listing.err = ""
            /\ Cardinality({e.name : e \in ListingEntries(listing)})
                   = Cardinality(listing.unordered) + Len(listing.entries)
            /\ parse_path(Append(dir, "content"))
                   = {Parsed(PassthroughPath(<<"<root>", "items", ToString(id)>>))}
            /\ parse_path(Append(dir, "id")) = {Parsed(ItemId(id))}
            /\ parse_path(Append(dir, "name")) = {Parsed(ItemName(id))}

\* C37: the entries listed for the root directory have pairwise distinct
\* names: no root filter carries the name of a fixed entry (items,
\* relationships, bin, .api_handle) or of another root filter, and the name of
\* every root filter resolves to the directory of that filter.
C37_RootEntriesDistinct ==
    LET filters == get_root_filters
    IN  /\ \A i \in 1..Len(filters) :
               /\ filters[i].name \notin {ITEMS_FOLDER[1], RELATIONSHIPS_FOLDER[1], "bin",
                                          API_HANDLE_PATH[1]}
               /\ \A j \in 1..Len(filters) : j # i => filters[j].name # filters[i].name
               /\ parse_path(<<filters[i].name>>) = {Parsed(Filter(filters[i].id))}
        /\ DistinctNames(list_dir_contents(Root))

(***************************************************************************)
(* Items named by stored conditions                                        *)
(***************************************************************************)
\* C38: delete_item(id) succeeds for every live item id, also when a stored
\* condition set holds a NoRelationshipWithSpecificItem condition that names
\* id; after it the row of the item, its item-relationships and its content
\* directory are gone.
C38_DeleteItemSucceeds ==
    \A id \in FileIds :
        /\ delete_item_result(id, "none") = "Ok"
        /\ ENABLED (/\ delete_item(id, "none")
                    /\ \A i \in 1..Len(files') : files'[i].id # id
                    /\ \A i \in 1..Len(item_relationships') :
                           item_relationships'[i].from_id # id
                               /\ item_relationships'[i].to_id # id
                    /\ id \notin disk')

\* C39: evaluating a stored condition set never panics: for the rules of
\* every condition set that add_root_filter stored, run_filter returns a
\* result or an error value, with a context item and without one (None),
\* also when the rules hold a HasRelationshipWithVariableItem condition.
C39_RunFilterNoPanic ==
    \A i \in 1..Len(get_condition_sets) :
        \A item_id \in {None} \cup {Some(id) : id \in FileIds} :
            ~run_filter(get_condition_sets[i].rules, item_id).panicked

====
